---- MODULE Spec2Model ----
(***************************************************************************)
(* OpenContext: the grounded generation client (retry loop, timeout,       *)
(* backoff), the get_company_context entry point with its fallback to      *)
(* basic detection, the response parser (_parse_json, _repair_json) and    *)
(* the assembly of a CompanyContext (from_dict, model_dump).               *)
(*                                                                         *)
(* Six specifications: Spec is one call of generate or of                  *)
(* get_company_context, SpecParse one call of _parse_json, SpecAssemble    *)
(* one assembly of a CompanyContext followed by its round trip,            *)
(* SpecGrounded the end of one call of generate_with_schema, SpecJobs the  *)
(* jobs of the API (SpecJobsFair with the tasks run fairly), SpecStore     *)
(* the JobStore called from several threads.                               *)
(*                                                                         *)
(* Text (URLs, error messages, responses) is a sequence of one-character   *)
(* strings; durations are integers in milliseconds (1.0 s = 1000).         *)
(***************************************************************************)
EXTENDS Integers, Sequences, FiniteSets, TLC

\* ------------------------------------------------------------------ bounds

\* Largest max_retries a directly constructed client is given.
MaxRetriesBound == 3

\* ------------------------------------------------------- program constants

DEFAULT_MAX_RETRIES == 3
DEFAULT_BASE_DELAY == 1000
DEFAULT_MAX_DELAY == 30000

\* ------------------------------------------------------------ text helpers

RECURSIVE Pow2(_)
Pow2(n) == IF n <= 0 THEN 1 ELSE 2 * Pow2(n - 1)

Min(a, b) == IF a <= b THEN a ELSE b

LowerLetters ==
    << "a","b","c","d","e","f","g","h","i","j","k","l","m",
       "n","o","p","q","r","s","t","u","v","w","x","y","z" >>

UpperLetters ==
    << "A","B","C","D","E","F","G","H","I","J","K","L","M",
       "N","O","P","Q","R","S","T","U","V","W","X","Y","Z" >>

\* str.startswith(prefix)
StartsWith(s, prefix) ==
    /\ Len(s) >= Len(prefix)
    /\ SubSeq(s, 1, Len(prefix)) = prefix

\* True iff `needle` occurs in `s` as a contiguous run (Python's `in`).
Contains(s, needle) ==
    \E i \in 1..(Len(s) - Len(needle) + 1) :
        SubSeq(s, i, i + Len(needle) - 1) = needle

\* Index of the first element of s that is in set `stops`, or Len(s)+1.
FirstIn(s, stops) ==
    IF \E i \in 1..Len(s) : s[i] \in stops
    THEN CHOOSE i \in 1..Len(s) :
            /\ s[i] \in stops
            /\ \A j \in 1..(i - 1) : s[j] \notin stops
    ELSE Len(s) + 1

\* ---------------------------------------------------------------- the URLs

HTTPS_PREFIX == << "h","t","t","p","s",":","/","/" >>
HTTP == << "h","t","t","p" >>

\* if not url.startswith("http"): url = f"https://{url}"
NormalizeUrl(url) ==
    IF StartsWith(url, HTTP) THEN url ELSE HTTPS_PREFIX \o url

SchemeChars ==
    { LowerLetters[i] : i \in 1..26 } \cup { UpperLetters[i] : i \in 1..26 }
        \cup { "0","1","2","3","4","5","6","7","8","9","+","-","." }

AsciiLetters ==
    { LowerLetters[i] : i \in 1..26 } \cup { UpperLetters[i] : i \in 1..26 }

\* urlsplit: what is left of the URL once a leading "scheme:" is taken off.
AfterScheme(url) ==
    LET i == FirstIn(url, {":"})
    IN  IF /\ i <= Len(url)
           /\ i > 1
           /\ url[1] \in AsciiLetters
           /\ \A j \in 1..(i - 1) : url[j] \in SchemeChars
        THEN SubSeq(url, i + 1, Len(url))
        ELSE url

\* urlparse(url).netloc: the text between a leading "//" and the next
\* "/", "?" or "#"; empty when the rest does not start with "//".
Netloc(url) ==
    LET rest == AfterScheme(url)
    IN  IF StartsWith(rest, << "/", "/" >>)
        THEN LET tail == SubSeq(rest, 3, Len(rest))
             IN  SubSeq(tail, 1, FirstIn(tail, {"/", "?", "#"}) - 1)
        ELSE << >>

HasChar(s, c) == \E i \in 1..Len(s) : s[i] = c

\* urlparse raises ValueError("Invalid IPv6 URL") when the netloc holds one
\* square bracket without the other.
UrlparseRaises(url) ==
    LET n == Netloc(url)
    IN  \/ HasChar(n, "[") /\ ~HasChar(n, "]")
        \/ HasChar(n, "]") /\ ~HasChar(n, "[")

\* str.replace(old, ""): every non-overlapping occurrence, left to right.
RECURSIVE RemoveAll(_, _)
RemoveAll(s, old) ==
    IF Len(s) = 0 THEN << >>
    ELSE IF StartsWith(s, old)
         THEN RemoveAll(SubSeq(s, Len(old) + 1, Len(s)), old)
         ELSE << s[1] >> \o RemoveAll(SubSeq(s, 2, Len(s)), old)

WWW_DOT == << "w","w","w","." >>

UpperOf(c) ==
    IF \E i \in 1..26 : LowerLetters[i] = c
    THEN UpperLetters[CHOOSE i \in 1..26 : LowerLetters[i] = c]
    ELSE c

LowerOf(c) ==
    IF \E i \in 1..26 : UpperLetters[i] = c
    THEN LowerLetters[CHOOSE i \in 1..26 : UpperLetters[i] = c]
    ELSE c

\* str.title(): a letter that follows a non-letter is upper-cased, every
\* other letter lower-cased.
Title(s) ==
    [ i \in 1..Len(s) |->
        IF i = 1 \/ s[i - 1] \notin AsciiLetters
        THEN UpperOf(s[i]) ELSE LowerOf(s[i]) ]

\* domain.split(".")[0].replace("-", " ").title()
CompanyNameOf(domain) ==
    LET label == SubSeq(domain, 1, FirstIn(domain, {"."}) - 1)
        spaced == [ i \in 1..Len(label) |->
                      IF label[i] = "-" THEN " " ELSE label[i] ]
    IN  Title(spaced)

\* basic_company_detection: does the call raise?
BasicDetectionRaises(url) == UrlparseRaises(NormalizeUrl(url))

\* basic_company_detection: the CompanyContext it returns.
BasicDetection(url) ==
    LET u == NormalizeUrl(url)
        domain == RemoveAll(Netloc(u), WWW_DOT)
    IN  [ source |-> "basic",
          company_name |-> CompanyNameOf(domain),
          company_url |-> u,
          tone |-> "professional" ]

\* The URLs a caller passes: "ex.com", "https://www.a-b.io/x", "[v6".
URL_BARE == << "e","x",".","c","o","m" >>
URL_FULL ==
    << "h","t","t","p","s",":","/","/","w","w","w",".",
       "a","-","b",".","i","o","/","x" >>
URL_BRACKET == << "[","v","6" >>

Urls == { URL_BARE, URL_FULL, URL_BRACKET }

\* ------------------------------------------------- errors and their class

\* 'rate limit'
KW_RATE_LIMIT ==
    << "r","a","t","e"," ","l","i","m","i","t" >>

\* '429'
KW_429 ==
    << "4","2","9" >>

\* '500'
KW_500 ==
    << "5","0","0" >>

\* '502'
KW_502 ==
    << "5","0","2" >>

\* '503'
KW_503 ==
    << "5","0","3" >>

\* '504'
KW_504 ==
    << "5","0","4" >>

\* 'overloaded'
KW_OVERLOADED ==
    << "o","v","e","r","l","o","a","d","e","d" >>

\* 'quota'
KW_QUOTA ==
    << "q","u","o","t","a" >>

\* 'temporarily unavailable'
KW_TEMP_UNAVAILABLE ==
    << "t","e","m","p","o","r","a","r","i","l","y"," ","u","n","a","v","a",
       "i","l","a","b","l","e" >>

\* 'connection'
KW_CONNECTION ==
    << "c","o","n","n","e","c","t","i","o","n" >>

\* 'timeout'
KW_TIMEOUT ==
    << "t","i","m","e","o","u","t" >>

\* 'resource exhausted'
KW_RESOURCE_EXHAUSTED ==
    << "r","e","s","o","u","r","c","e"," ","e","x","h","a","u","s","t","e",
       "d" >>

\* 'HTTP 429'
MSG_HTTP_429 ==
    << "H","T","T","P"," ","4","2","9" >>

\* 'Model Overloaded'
MSG_OVERLOADED ==
    << "M","o","d","e","l"," ","O","v","e","r","l","o","a","d","e","d" >>

\* 'API key invalid'
MSG_BAD_KEY ==
    << "A","P","I"," ","k","e","y"," ","i","n","v","a","l","i","d" >>

\* 'No Gemini API key'
MSG_NO_KEY ==
    << "N","o"," ","G","e","m","i","n","i"," ","A","P","I"," ","k","e","y" >>

\* 'Could not find JSON in response: '
COULD_NOT_FIND ==
    << "C","o","u","l","d"," ","n","o","t"," ","f","i","n","d"," ","J","S",
       "O","N"," ","i","n"," ","r","e","s","p","o","n","s","e",":"," " >>

\* '{}'
TEXT_EMPTY_OBJECT ==
    << "{","}" >>

\* '{"tone":1}'
TEXT_TONE_NUMBER ==
    << "{","\"","t","o","n","e","\"",":","1","}" >>

\* 'no data'
TEXT_PROSE ==
    << "n","o"," ","d","a","t","a" >>

\* 'Quota hit'
TEXT_PROSE_QUOTA ==
    << "Q","u","o","t","a"," ","h","i","t" >>


\* The transient vocabulary of the retry check.
TransientKeywords ==
    { KW_RATE_LIMIT, KW_429, KW_500, KW_502, KW_503, KW_504, KW_OVERLOADED,
      KW_QUOTA, KW_TEMP_UNAVAILABLE, KW_CONNECTION, KW_TIMEOUT,
      KW_RESOURCE_EXHAUSTED }

\* str.lower()
Lower(s) == [ i \in 1..Len(s) |-> LowerOf(s[i]) ]

\* A retry check that takes every error for a transient one.
IsRetryableAnything(msg) == TRUE

\* error_str = str(e).lower(); any(x in error_str for x in [...])
IsRetryable(msg) ==
    \E kw \in TransientKeywords : Contains(Lower(msg), kw)

NoError == [ type |-> "none", msg |-> << >>, request |-> 0 ]

\* The messages of the exceptions the generation service raises.
ServiceErrorMessages == { MSG_HTTP_429, MSG_OVERLOADED, MSG_BAD_KEY }

\* The texts the generation service answers with.
ResponseTexts ==
    { TEXT_EMPTY_OBJECT, TEXT_TONE_NUMBER, TEXT_PROSE, TEXT_PROSE_QUOTA }

PREVIEW_LEN == 200

\* _parse_json on a text that holds no "{": ValueError with a preview.  Every
\* text of ResponseTexts that holds a "{" is a strict JSON object without
\* fences, which json.loads returns at the first attempt.
ParseJsonRaises(text) == ~HasChar(text, "{")

\* A message that carries the whole text.
ParseErrorMessageWhole(text) == COULD_NOT_FIND \o text

ParseErrorMessage(text) ==
    COULD_NOT_FIND \o SubSeq(text, 1, Min(Len(text), PREVIEW_LEN))

\* CompanyContext.from_dict: the field tone is declared str, and the model
\* rejects a number given for it.
AssembleRaises(text) == text = TEXT_TONE_NUMBER

\* ------------------------------------------------------------- the inputs

\* generate stands for both retry loops of the client, generate and
\* generate_with_schema, whose loops are the same statement for statement;
\* get_company_context reaches the loop through run_opencontext.
Entries == { "generate", "get_company_context" }

\* Where a credential comes from: the api_key argument, or an environment
\* variable.
CredentialSources == { {}, {"api_key"}, {"GOOGLE_API_KEY"} }

\* Delays whose cap is reached within the first retries.
CappedDelayConfigs ==
    { [ base_delay |-> DEFAULT_BASE_DELAY, max_delay |-> 3 * DEFAULT_BASE_DELAY ],
      [ base_delay |-> DEFAULT_BASE_DELAY \div 2,
        max_delay |-> DEFAULT_BASE_DELAY \div 2 ] }

ClientConfigs ==
    { [ max_retries |-> n, base_delay |-> DEFAULT_BASE_DELAY,
        max_delay |-> DEFAULT_MAX_DELAY ] : n \in 0..MaxRetriesBound }
    \cup
    { [ max_retries |-> MaxRetriesBound, base_delay |-> d.base_delay,
        max_delay |-> d.max_delay ] : d \in CappedDelayConfigs }

\* GeminiClient(api_key=api_key): every retry parameter at its default.
DefaultConfig ==
    [ max_retries |-> DEFAULT_MAX_RETRIES,
      base_delay |-> DEFAULT_BASE_DELAY,
      max_delay |-> DEFAULT_MAX_DELAY ]

\* ---------------------------------------------------------------- the state

VARIABLES
    entry,        \* the function the caller calls
    cfg,          \* the client's max_retries, base_delay, max_delay
    inp,          \* url, credentials, fallback_on_error, json_output
    pc,           \* "start", "request", "await", "sleep", "done"
    attempt,      \* the retry loop's variable
    requests,     \* generate_content calls started
    running,      \* attempts whose generate_content call is still executing
    history,      \* how each finished attempt ended
    last_error,   \* the retry loop's last_error
    sleeps,       \* the backoff sleeps performed
    gen_outcome,  \* what the retry loop (generate) returned or raised
    outcome,      \* what the caller of the entry function got
    parser,       \* one call of _parse_json: its text, its stage, its result
    assembly,     \* one assembly of a CompanyContext, and its round trip
    grounded,     \* one answered request of generate_with_schema
    api,          \* the HTTP API: its job store, its tasks, its last answer
    store         \* a JobStore whose methods are called from several threads

\* The variables of a call of generate or get_company_context.
callVars ==
    << entry, cfg, inp, pc, attempt, requests, running, history,
       last_error, sleeps, gen_outcome, outcome >>

vars == << callVars, parser, assembly, grounded, api, store, store >>

\* No call of _parse_json, no assembly, is under way.
ParserIdle == [ pc |-> "idle" ]
AssemblyIdle == [ pc |-> "idle" ]

\* No request of generate_with_schema is being answered, no API is serving.
GroundedIdle == [ pc |-> "idle" ]
ApiIdle == [ pc |-> "idle" ]
StoreIdle == [ pc |-> "idle" ]

NoValue == [ source |-> "none" ]

NoOutcome ==
    [ kind |-> "pending", value |-> NoValue, error |-> NoError,
      ai_called |-> FALSE ]

Returned(v, flag) ==
    [ kind |-> "returned", value |-> v, error |-> NoError, ai_called |-> flag ]

Raised(e) ==
    [ kind |-> "raised", value |-> NoValue, error |-> e, ai_called |-> FALSE ]

\* api_key or os.getenv("GEMINI_API_KEY") or os.getenv("GOOGLE_API_KEY")
HasKey == inp.credentials # {}

Init ==
    /\ entry \in Entries
    /\ cfg \in IF entry = "get_company_context"
               THEN { DefaultConfig } ELSE ClientConfigs
    /\ inp \in IF entry = "get_company_context"
               THEN [ url : Urls, credentials : CredentialSources,
                      fallback_on_error : BOOLEAN, json_output : { TRUE } ]
               ELSE [ url : { URL_BARE }, credentials : { {}, {"api_key"} },
                      fallback_on_error : { FALSE }, json_output : BOOLEAN ]
    /\ pc = "start"
    /\ attempt = 0
    /\ requests = 0
    /\ running = {}
    /\ history = << >>
    /\ last_error = NoError
    /\ sleeps = << >>
    /\ gen_outcome = NoOutcome
    /\ outcome = NoOutcome
    /\ parser = ParserIdle
    /\ assembly = AssemblyIdle
    /\ grounded = GroundedIdle
    /\ api = ApiIdle
    /\ store = StoreIdle

\* ------------------------------------------------------- the retry backoff

\* A backoff that forgets the cap.
BackoffDelayUncapped(k) == cfg.base_delay * Pow2(k)

\* delay = min(self.base_delay * (2 ** attempt), self.max_delay)
BackoffDelay(k) == Min(cfg.base_delay * Pow2(k), cfg.max_delay)

\* jitter = random.uniform(0, delay * 0.1): the two ends of the interval.
JitterDraws(delay) == { 0, delay \div 10 }

\* A loop that sleeps after every failure, the last one included.
SleepsAfterEveryFailure(k) == k <= cfg.max_retries

\* if attempt < self.max_retries: (the sleep that precedes a retry)
SleepsBeforeRetry(k) == k < cfg.max_retries

\* A budget check that is off by one: it gives up one attempt early.
BudgetExhaustedOffByOne(k) == k + 1 >= cfg.max_retries

\* A budget that is never used up.
BudgetNeverExhausted(k) == FALSE

\* attempt >= self.max_retries: the retry budget is used up.
BudgetExhausted(k) == k >= cfg.max_retries

\* for attempt in range(self.max_retries + 1)
InRange(k) == k <= cfg.max_retries

\* How an attempt ended, as the retry policy names it: a failure is
\* transient when its lower-cased message holds a word of the vocabulary.
MatchesVocabulary(msg) ==
    \E kw \in TransientKeywords : Contains(Lower(msg), kw)

ErrorClass(e) ==
    IF MatchesVocabulary(e.msg) THEN "error_transient" ELSE "error_permanent"

\* ------------------------------------------ what the caller of generate does

InvalidUrlError ==
    [ type |-> "ValueError", msg |-> << >>, request |-> 0 ]

NoKeyError ==
    [ type |-> "ValueError", msg |-> MSG_NO_KEY, request |-> 0 ]

\* get_company_context's fallback: basic_company_detection(url), False
Fallback ==
    IF BasicDetectionRaises(inp.url)
    THEN Raised(InvalidUrlError)
    ELSE Returned(BasicDetection(inp.url), FALSE)

\* get_company_context's except branch: the fallback when the caller opted
\* into it, the exception otherwise.
FallbackOrRaise(e) ==
    IF inp.fallback_on_error THEN Fallback ELSE Raised(e)

\* generate raises e: its caller gets it, get_company_context handles it.
GenerateRaises(e) ==
    /\ pc' = "done"
    /\ gen_outcome' = Raised(e)
    /\ outcome' = IF entry = "get_company_context"
                  THEN FallbackOrRaise(e) ELSE Raised(e)

\* generate returns the mapping parsed from `text` (the text itself when
\* json_output is off), the answer to request number `req`; run_opencontext
\* assembles a CompanyContext from the mapping.
GenerateReturns(text, req) ==
    LET v == [ source |-> "model", request |-> req, text |-> text,
               parsed |-> inp.json_output ]
    IN  /\ pc' = "done"
        /\ gen_outcome' = Returned(v, FALSE)
        /\ outcome' =
             IF entry = "get_company_context"
             THEN IF AssembleRaises(text)
                  THEN FallbackOrRaise(
                         [ type |-> "ValidationError", msg |-> << >>,
                           request |-> req ])
                  ELSE Returned(v, TRUE)
             ELSE Returned(v, FALSE)

\* The loop goes on to its next iteration, or is over: raise last_error.
LoopNext(e) ==
    IF InRange(attempt + 1)
    THEN /\ attempt' = attempt + 1
         /\ pc' = "request"
         /\ UNCHANGED << gen_outcome, outcome >>
    ELSE /\ attempt' = attempt
         /\ GenerateRaises(e)

\* The end of a failed iteration: the backoff sleep when a retry follows.
BackoffOrGiveUp(e) ==
    IF SleepsBeforeRetry(attempt)
    THEN /\ \E j \in JitterDraws(BackoffDelay(attempt)) :
              sleeps' = Append(sleeps,
                          [ after_attempt |-> attempt,
                            delay |-> BackoffDelay(attempt),
                            jitter |-> j ])
         /\ pc' = "sleep"
         /\ UNCHANGED << attempt, gen_outcome, outcome >>
    ELSE /\ LoopNext(e)
         /\ UNCHANGED sleeps

\* except Exception as e: raise unless retryable and attempts remain.
ExceptionPath(e) ==
    /\ last_error' = e
    /\ IF ~IsRetryable(e.msg) \/ BudgetExhausted(attempt)
       THEN /\ GenerateRaises(e)
            /\ UNCHANGED << attempt, sleeps >>
       ELSE BackoffOrGiveUp(e)

\* ---------------------------------------------------------------- actions

\* GeminiClient(...) built by the caller of generate.
ClientInit ==
    /\ pc = "start"
    /\ entry # "get_company_context"
    /\ IF HasKey
       THEN /\ pc' = "request"
            /\ UNCHANGED outcome
       ELSE /\ pc' = "done"
            /\ outcome' = Raised(NoKeyError)
    /\ UNCHANGED << parser, assembly, grounded, api, store, entry, cfg, inp, attempt, requests, running, history,
                    last_error, sleeps, gen_outcome >>

\* get_company_context without a credential.
GetCompanyContextNoKey ==
    /\ pc = "start"
    /\ entry = "get_company_context"
    /\ ~HasKey
    /\ pc' = "done"
    /\ outcome' = IF inp.fallback_on_error
                  THEN Fallback ELSE Raised(NoKeyError)
    /\ UNCHANGED << parser, assembly, grounded, api, store, entry, cfg, inp, attempt, requests, running, history,
                    last_error, sleeps, gen_outcome >>

\* get_company_context with a credential: run_opencontext builds the client,
\* the prompt and the schema and calls generate_with_schema.
RunOpencontext ==
    /\ pc = "start"
    /\ entry = "get_company_context"
    /\ HasKey
    /\ pc' = "request"
    /\ UNCHANGED << parser, assembly, grounded, api, store, entry, cfg, inp, attempt, requests, running, history,
                    last_error, sleeps, gen_outcome, outcome >>

\* asyncio.to_thread(generate_content, ...) under asyncio.wait_for.
IssueRequest ==
    /\ pc = "request"
    /\ requests' = requests + 1
    /\ running' = running \cup { attempt }
    /\ pc' = "await"
    /\ UNCHANGED << parser, assembly, grounded, api, store, entry, cfg, inp, attempt, history, last_error, sleeps,
                    gen_outcome, outcome >>

\* The awaited call returns a response in time; its text is parsed when JSON
\* output was asked for (generate_with_schema always parses).
RequestReturns ==
    /\ pc = "await"
    /\ attempt \in running
    /\ running' = running \ { attempt }
    /\ \E text \in ResponseTexts :
         IF inp.json_output /\ ParseJsonRaises(text)
         THEN LET e == [ type |-> "ValueError",
                         msg |-> ParseErrorMessage(text),
                         request |-> attempt + 1 ]
              IN  /\ history' = Append(history, ErrorClass(e))
                  /\ ExceptionPath(e)
         ELSE /\ history' = Append(history, "success")
              /\ GenerateReturns(text, attempt + 1)
              /\ UNCHANGED << attempt, last_error, sleeps >>
    /\ UNCHANGED << parser, assembly, grounded, api, store, entry, cfg, inp, requests >>

\* The awaited call raises.
RequestRaises ==
    /\ pc = "await"
    /\ attempt \in running
    /\ running' = running \ { attempt }
    /\ \E m \in ServiceErrorMessages :
         LET e == [ type |-> "ServiceError", msg |-> m,
                    request |-> attempt + 1 ]
         IN  /\ history' = Append(history, ErrorClass(e))
             /\ ExceptionPath(e)
    /\ UNCHANGED << parser, assembly, grounded, api, store, entry, cfg, inp, requests >>

\* A timeout that is raised to the caller at once instead of being retried.
RequestTimesOutFatal ==
    /\ pc = "await"
    /\ attempt \in running
    /\ running' = running
    /\ history' = Append(history, "timeout")
    /\ LET e == [ type |-> "TimeoutError", msg |-> << >>,
                  request |-> attempt + 1 ]
       IN  /\ last_error' = e
           /\ GenerateRaises(e)
    /\ UNCHANGED << parser, assembly, grounded, api, store, entry, cfg, inp, attempt, requests, sleeps >>

\* asyncio.wait_for gives up: the coroutine stops waiting, but the thread
\* that executes generate_content cannot be cancelled and runs on.
RequestTimesOut ==
    /\ pc = "await"
    /\ attempt \in running
    /\ running' = running
    /\ history' = Append(history, "timeout")
    /\ LET e == [ type |-> "TimeoutError", msg |-> << >>,
                  request |-> attempt + 1 ]
       IN  /\ last_error' = e
           /\ BackoffOrGiveUp(e)
    /\ UNCHANGED << parser, assembly, grounded, api, store, entry, cfg, inp, requests >>

\* await asyncio.sleep(delay + jitter) is over: the loop goes on.
BackoffSleepEnds ==
    /\ pc = "sleep"
    /\ LoopNext(last_error)
    /\ UNCHANGED << parser, assembly, grounded, api, store, entry, cfg, inp, requests, running, history, last_error,
                    sleeps >>

\* A call nobody waits for any more comes to its end in its thread.
AbandonedCallEnds ==
    /\ \E k \in running :
         /\ ~(pc = "await" /\ k = attempt)
         /\ running' = running \ { k }
    /\ UNCHANGED << parser, assembly, grounded, api, store, entry, cfg, inp, pc, attempt, requests, history,
                    last_error, sleeps, gen_outcome, outcome >>

Next ==
    \/ ClientInit
    \/ GetCompanyContextNoKey
    \/ RunOpencontext
    \/ IssueRequest
    \/ RequestReturns
    \/ RequestRaises
    \/ RequestTimesOut
    \/ BackoffSleepEnds
    \/ AbandonedCallEnds

Spec == Init /\ [][Next]_vars

\* ----------------------------------------------------------------- claims

N == cfg.max_retries

Transient(h) == h \in { "timeout", "error_transient" }

AllTransient(h) == \A i \in 1..Len(h) : Transient(h[i])

\* generate has been called on a constructed client.
InGenerate == HasKey /\ pc # "start"

Slept(i) == sleeps[i].delay + sleeps[i].jitter

\* C1: with max_retries = N, while every request so far failed with a
\* transient error and at most N have failed, generate has not given up and
\* has slept once per failure; and when the first N requests failed with
\* transient errors and request N+1 succeeded, generate returned the result
\* of request N+1 after exactly N+1 requests and N sleeps, one before each
\* retry.
C1_RetriesThenSuccess ==
    InGenerate =>
      /\ (AllTransient(history) /\ Len(history) <= N) =>
            /\ gen_outcome.kind = "pending"
            /\ pc \in { "request", "await", "sleep" }
            /\ Len(sleeps) = Len(history)
      /\ ( /\ Len(history) = N + 1
           /\ AllTransient(SubSeq(history, 1, N))
           /\ history[N + 1] = "success" ) =>
            /\ pc = "done"
            /\ gen_outcome.kind = "returned"
            /\ gen_outcome.value.source = "model"
            /\ gen_outcome.value.request = N + 1
            /\ requests = N + 1
            /\ Len(sleeps) = N
            /\ \A i \in 1..N : sleeps[i].after_attempt = i - 1

\* C1 witness: a client with at least two retries returned the answer to its
\* last allowed request after a timeout and a transient exception.
C1_Witness ==
    /\ InGenerate
    /\ N >= 2
    /\ Len(history) = N + 1
    /\ history[N + 1] = "success"
    /\ \E i \in 1..N : history[i] = "timeout"
    /\ \E i \in 1..N : history[i] = "error_transient"
    /\ gen_outcome.kind = "returned"

\* C2: with max_retries = N, once N+1 consecutive requests have failed with
\* transient errors generate has raised the error of request N+1 (a timeout
\* error exactly when that request timed out) and returned no value, after
\* exactly N+1 requests and N sleeps; the direct caller gets that error.
C2_ExhaustedRaisesLast ==
    ( /\ InGenerate
      /\ Len(history) = N + 1
      /\ AllTransient(history) ) =>
        /\ pc = "done"
        /\ gen_outcome.kind = "raised"
        /\ gen_outcome.value = NoValue
        /\ gen_outcome.error = last_error
        /\ gen_outcome.error.request = N + 1
        /\ (history[N + 1] = "timeout")
              <=> (gen_outcome.error.type = "TimeoutError")
        /\ requests = N + 1
        /\ Len(sleeps) = N
        /\ entry = "generate" => outcome = gen_outcome

\* C2 witness: the budget of a client with at least one retry is used up by
\* a transient exception on the last attempt.
C2_Witness ==
    /\ InGenerate
    /\ N >= 1
    /\ Len(history) = N + 1
    /\ AllTransient(history)
    /\ history[N + 1] = "error_transient"
    /\ gen_outcome.kind = "raised"

\* C3: once a request has failed with an error that is neither a timeout nor
\* in the transient vocabulary, generate has raised that very error; no
\* request and no sleep follows it, so a permanent error on the first attempt
\* is raised after one request and zero sleeps.
C3_PermanentRaisesAtOnce ==
    ( /\ Len(history) >= 1
      /\ history[Len(history)] = "error_permanent" ) =>
        /\ pc = "done"
        /\ gen_outcome.kind = "raised"
        /\ gen_outcome.error = last_error
        /\ gen_outcome.error.request = Len(history)
        /\ requests = Len(history)
        /\ Len(sleeps) = Len(history) - 1

\* C3 witness: the first request failed with a permanent error while retries
\* remained.
C3_Witness ==
    /\ N >= 1
    /\ history = << "error_permanent" >>
    /\ sleeps = << >>
    /\ gen_outcome.kind = "raised"

\* C4: a request that timed out counts as one attempt: while attempts remain
\* it is followed by one backoff sleep and then the next attempt's request,
\* and when it was the last allowed attempt generate raises a timeout error.
C4_TimeoutIsTransient ==
    ( /\ Len(history) >= 1
      /\ history[Len(history)] = "timeout" ) =>
        IF Len(history) <= N
        THEN /\ gen_outcome.kind = "pending"
             /\ Len(sleeps) = Len(history)
             /\ sleeps[Len(sleeps)].after_attempt = Len(history) - 1
             /\ \/ pc = "sleep" /\ attempt = Len(history) - 1
                                /\ requests = Len(history)
                \/ pc = "request" /\ attempt = Len(history)
                                  /\ requests = Len(history)
                \/ pc = "await" /\ attempt = Len(history)
                                /\ requests = Len(history) + 1
        ELSE /\ pc = "done"
             /\ gen_outcome.kind = "raised"
             /\ gen_outcome.error.type = "TimeoutError"
             /\ gen_outcome.error.request = N + 1
             /\ requests = N + 1
             /\ Len(sleeps) = N

\* C4 witness: a first timeout was slept on and retried, and a timeout of the
\* last allowed attempt reached the caller.
C4_Witness ==
    /\ N >= 1
    /\ Len(history) = N + 1
    /\ history[1] = "timeout"
    /\ history[N + 1] = "timeout"
    /\ Len(sleeps) = N
    /\ gen_outcome.kind = "raised"
    /\ gen_outcome.error.type = "TimeoutError"

\* C5 (as claimed): get_company_context called with fallback_on_error=True
\* never raises, every failure becoming (basic detection, False); with
\* fallback_on_error=False a failure is raised.
C5_FallbackNeverRaises ==
    ( entry = "get_company_context" /\ pc = "done" ) =>
        LET failed ==
              \/ ~HasKey
              \/ gen_outcome.kind = "raised"
              \/ /\ gen_outcome.kind = "returned"
                 /\ AssembleRaises(gen_outcome.value.text)
        IN  IF inp.fallback_on_error
            THEN /\ outcome.kind = "returned"
                 /\ failed => /\ outcome.value.source = "basic"
                              /\ outcome.ai_called = FALSE
            ELSE failed => outcome.kind = "raised"

\* C6 (as claimed): the boolean get_company_context returns is True exactly
\* when at least one request was sent during the call.
C6_FlagIffRequestSent ==
    ( entry = "get_company_context" /\ outcome.kind = "returned" ) =>
        ( outcome.ai_called <=> requests >= 1 )

\* C7 (as claimed): without a credential nothing is sent and nothing is slept;
\* constructing the client raises ValueError, get_company_context returns
\* basic detection with fallback_on_error=True and raises ValueError without.
C7_NoCredentialFailsAtOnce ==
    ~HasKey =>
        /\ pc \in { "start", "done" }
        /\ requests = 0
        /\ sleeps = << >>
        /\ pc = "done" =>
             IF entry = "generate"
             THEN outcome = Raised(NoKeyError)
             ELSE IF inp.fallback_on_error
                  THEN /\ outcome.kind = "returned"
                       /\ outcome.value.source = "basic"
                       /\ outcome.ai_called = FALSE
                  ELSE outcome = Raised(NoKeyError)

\* C8 (as claimed): at most one generate_content call of a generate call is
\* executing at any time.
C8_OneRequestAtATime == Cardinality(running) <= 1

\* C9: no sleep precedes the first request and exactly one precedes every
\* later request; the i-th sleep follows failed attempt k = i-1 with delay
\* d = min(base_delay * 2^k, max_delay) and a jitter j, 0 <= j <= d/10.
C9_BackoffFormula ==
    /\ requests = 0 => sleeps = << >>
    /\ Len(sleeps) <= requests
    /\ pc = "await" => Len(sleeps) = requests - 1
    /\ \A i \in 1..Len(sleeps) :
         LET d == IF cfg.base_delay * Pow2(i - 1) <= cfg.max_delay
                  THEN cfg.base_delay * Pow2(i - 1) ELSE cfg.max_delay
         IN  /\ sleeps[i].after_attempt = i - 1
             /\ sleeps[i].delay = d
             /\ sleeps[i].jitter >= 0
             /\ 10 * sleeps[i].jitter <= d

\* C9 witness: three sleeps, the first below the cap with its full jitter,
\* the last at the cap.
C9_Witness ==
    /\ Len(sleeps) >= 3
    /\ sleeps[1].delay < cfg.max_delay
    /\ sleeps[1].jitter > 0
    /\ sleeps[3].delay = cfg.max_delay
    /\ cfg.base_delay * Pow2(2) > cfg.max_delay

\* C10 (as claimed): the delays actually slept are non-decreasing and none
\* exceeds max_delay.
C10_SleptDelaysMonotoneCapped ==
    \A i \in 1..Len(sleeps) :
        /\ Slept(i) <= cfg.max_delay
        /\ i > 1 => Slept(i - 1) <= Slept(i)

\* ============================================================ json.loads
\* The strict decoder _parse_json hands its text to.  A decoded value is a
\* record of its type t and its content v: the characters of a string, the
\* literal of a number or of true / false / null, the items of an array, the
\* (key, value) pairs of an object in the order of their first appearance.

JStr(chars) == [ t |-> "str", v |-> chars ]
JNum(chars) == [ t |-> "num", v |-> chars ]
JLit(chars) == [ t |-> "lit", v |-> chars ]
JArr(items) == [ t |-> "arr", v |-> items ]
JObj(pairs) == [ t |-> "obj", v |-> pairs ]

Decoded(val, next) == [ ok |-> TRUE, val |-> val, next |-> next ]
Undecodable == [ ok |-> FALSE, val |-> JLit(<< >>), next |-> 0 ]

\* The decoder's whitespace.
JsonWs == { " ", "\t", "\n", "\r" }

\* Characters a string must escape (strict=True).
ControlChars == { "\t", "\n", "\r", "\f" }

Digits == { "0","1","2","3","4","5","6","7","8","9" }

\* The first index from i on whose character is outside `skipped`, or
\* Len(s) + 1.
SkipWhile(s, i, skipped) ==
    IF \E j \in i..Len(s) : s[j] \notin skipped
    THEN CHOOSE j \in i..Len(s) :
            /\ s[j] \notin skipped
            /\ \A k \in i..(j - 1) : s[k] \in skipped
    ELSE Len(s) + 1

\* s[i:].startswith(word)
At(s, i, word) ==
    /\ i >= 1
    /\ i + Len(word) - 1 <= Len(s)
    /\ SubSeq(s, i, i + Len(word) - 1) = word

\* What a backslash escape stands for; "BS" stands for the backspace.
Unescaped(c) ==
    CASE c = "n" -> "\n"
      [] c = "t" -> "\t"
      [] c = "r" -> "\r"
      [] c = "f" -> "\f"
      [] c = "b" -> "BS"
      [] OTHER -> c

SimpleEscapes == { "\"", "\\", "/", "n", "t", "r", "f", "b" }

\* py_scanstring from the character after the opening quote; \uXXXX escapes
\* are not among the texts drawn.
RECURSIVE ScanString(_, _, _)
ScanString(s, i, acc) ==
    IF i > Len(s) THEN Undecodable
    ELSE IF s[i] = "\"" THEN Decoded(JStr(acc), i + 1)
    ELSE IF s[i] \in ControlChars THEN Undecodable
    ELSE IF s[i] = "\\"
         THEN IF i + 1 <= Len(s) /\ s[i + 1] \in SimpleEscapes
              THEN ScanString(s, i + 2, Append(acc, Unescaped(s[i + 1])))
              ELSE Undecodable
         ELSE ScanString(s, i + 1, Append(acc, s[i]))

\* -?(0|[1-9]\d*)(\.\d+)?([eE][-+]?\d+)? matched at i; the value of a number
\* is its literal.
ScanNumber(s, i) ==
    LET a == IF At(s, i, << "-" >>) THEN i + 1 ELSE i
        b == IF At(s, a, << "0" >>) THEN a + 1 ELSE SkipWhile(s, a, Digits)
        c == IF At(s, b, << "." >>) /\ SkipWhile(s, b + 1, Digits) > b + 1
             THEN SkipWhile(s, b + 1, Digits) ELSE b
        e == IF c <= Len(s) /\ s[c] \in { "e", "E" }
             THEN IF c + 1 <= Len(s) /\ s[c + 1] \in { "+", "-" }
                  THEN c + 2 ELSE c + 1
             ELSE c
        d == IF e > c /\ SkipWhile(s, e, Digits) > e
             THEN SkipWhile(s, e, Digits) ELSE c
    IN  IF b > a THEN Decoded(JNum(SubSeq(s, i, d - 1)), d) ELSE Undecodable

WORD_TRUE == << "t","r","u","e" >>
WORD_FALSE == << "f","a","l","s","e" >>
WORD_NULL == << "n","u","l","l" >>
WORD_NAN == << "N","a","N" >>
WORD_INFINITY == << "I","n","f","i","n","i","t","y" >>
WORD_MINUS_INFINITY == << "-" >> \o WORD_INFINITY

\* The literals the decoder accepts, longest first where one starts another.
JsonWords ==
    << WORD_TRUE, WORD_FALSE, WORD_NULL, WORD_NAN, WORD_INFINITY,
       WORD_MINUS_INFINITY >>

\* dict[key] = value: a repeated key keeps its place and takes the new value.
SetKey(pairs, key, val) ==
    IF \E n \in 1..Len(pairs) : pairs[n].k = key
    THEN [ n \in 1..Len(pairs) |->
             IF pairs[n].k = key THEN [ k |-> key, val |-> val ]
             ELSE pairs[n] ]
    ELSE Append(pairs, [ k |-> key, val |-> val ])

\* JSONDecoder.scan_once at i: a string, an object, an array, a literal or a
\* number.
RECURSIVE DecodeValue(_, _), DecodeMembers(_, _, _), DecodeItems(_, _, _)
DecodeValue(s, i) ==
    IF i > Len(s) THEN Undecodable
    ELSE IF s[i] = "\"" THEN ScanString(s, i + 1, << >>)
    ELSE IF s[i] = "{"
         THEN LET j == SkipWhile(s, i + 1, JsonWs)
              IN  IF At(s, j, << "}" >>) THEN Decoded(JObj(<< >>), j + 1)
                  ELSE DecodeMembers(s, j, << >>)
    ELSE IF s[i] = "["
         THEN LET j == SkipWhile(s, i + 1, JsonWs)
              IN  IF At(s, j, << "]" >>) THEN Decoded(JArr(<< >>), j + 1)
                  ELSE DecodeItems(s, j, << >>)
    ELSE IF \E n \in 1..Len(JsonWords) : At(s, i, JsonWords[n])
         THEN LET n == CHOOSE n \in 1..Len(JsonWords) : At(s, i, JsonWords[n])
              IN  Decoded(JLit(JsonWords[n]), i + Len(JsonWords[n]))
    ELSE ScanNumber(s, i)

\* JSONObject from the first key on: "key" : value, then "," or "}".
DecodeMembers(s, i, acc) ==
    IF ~At(s, i, << "\"" >>) THEN Undecodable
    ELSE LET key == ScanString(s, i + 1, << >>)
         IN  IF ~key.ok THEN Undecodable
             ELSE LET c == SkipWhile(s, key.next, JsonWs)
                  IN  IF ~At(s, c, << ":" >>) THEN Undecodable
                      ELSE LET val == DecodeValue(s, SkipWhile(s, c + 1, JsonWs))
                           IN  IF ~val.ok THEN Undecodable
                               ELSE LET pairs == SetKey(acc, key.val.v, val.val)
                                        d == SkipWhile(s, val.next, JsonWs)
                                    IN  IF At(s, d, << "}" >>)
                                        THEN Decoded(JObj(pairs), d + 1)
                                        ELSE IF At(s, d, << "," >>)
                                        THEN DecodeMembers(
                                               s, SkipWhile(s, d + 1, JsonWs),
                                               pairs)
                                        ELSE Undecodable

\* JSONArray from the first item on: value, then "," or "]".
DecodeItems(s, i, acc) ==
    LET val == DecodeValue(s, i)
    IN  IF ~val.ok THEN Undecodable
        ELSE LET items == Append(acc, val.val)
                 d == SkipWhile(s, val.next, JsonWs)
             IN  IF At(s, d, << "]" >>) THEN Decoded(JArr(items), d + 1)
                 ELSE IF At(s, d, << "," >>)
                 THEN DecodeItems(s, SkipWhile(s, d + 1, JsonWs), items)
                 ELSE Undecodable

\* json.loads(text): one value with whitespace around it and nothing else;
\* ok = FALSE stands for JSONDecodeError.
JsonLoads(s) ==
    LET r == DecodeValue(s, SkipWhile(s, 1, JsonWs))
    IN  IF r.ok /\ SkipWhile(s, r.next, JsonWs) > Len(s)
        THEN [ ok |-> TRUE, val |-> r.val ]
        ELSE [ ok |-> FALSE, val |-> JLit(<< >>) ]

\* a == b for two decoded values (or two instances of the data models): the
\* same type and the same content, item by item.
RECURSIVE SameValue(_, _)
SameValue(a, b) ==
    /\ a.t = b.t
    /\ Len(a.v) = Len(b.v)
    /\ IF a.t \in { "str", "num", "lit" } THEN a.v = b.v
       ELSE IF a.t = "arr"
       THEN \A n \in 1..Len(a.v) : SameValue(a.v[n], b.v[n])
       ELSE \A n \in 1..Len(a.v) :
                /\ a.v[n].k = b.v[n].k
                /\ SameValue(a.v[n].val, b.v[n].val)

\* ============================================================ _repair_json

\* \s of the patterns, and the characters str.strip() takes off.
ReWs == { " ", "\t", "\n", "\r", "\f" }

\* [a-zA-Z_] and [a-zA-Z0-9_]
IdentStart == AsciiLetters \cup { "_" }
IdentChars == IdentStart \cup Digits

\* re.sub(r'([{,])\s*([a-zA-Z_][a-zA-Z0-9_]*)\s*:', r'\1"\2":', text), from
\* index i on: leftmost matches, none overlapping another.
RECURSIVE QuoteBareKeys(_, _)
QuoteBareKeys(s, i) ==
    IF i > Len(s) THEN << >>
    ELSE LET j == SkipWhile(s, i + 1, ReWs)
             k == SkipWhile(s, j, IdentChars)
             m == SkipWhile(s, k, ReWs)
         IN  IF /\ s[i] \in { "{", "," }
                /\ j <= Len(s)
                /\ s[j] \in IdentStart
                /\ At(s, m, << ":" >>)
             THEN << s[i], "\"" >> \o SubSeq(s, j, k - 1) \o << "\"", ":" >>
                      \o QuoteBareKeys(s, m + 1)
             ELSE << s[i] >> \o QuoteBareKeys(s, i + 1)

\* re.sub(r',\s*([}\]])', r'\1', text), from index i on.
RECURSIVE DropTrailingCommas(_, _)
DropTrailingCommas(s, i) ==
    IF i > Len(s) THEN << >>
    ELSE LET j == SkipWhile(s, i + 1, ReWs)
         IN  IF s[i] = "," /\ j <= Len(s) /\ s[j] \in { "}", "]" }
             THEN << s[j] >> \o DropTrailingCommas(s, j + 1)
             ELSE << s[i] >> \o DropTrailingCommas(s, i + 1)

\* re.sub(r'([<before>])\s*\n\s*<after>', r'\1,\n<after>', text), from index
\* i on: a character of `before`, whitespace holding a line feed, `after`.
RECURSIVE CommaAcrossLines(_, _, _, _)
CommaAcrossLines(s, i, before, after) ==
    IF i > Len(s) THEN << >>
    ELSE LET j == SkipWhile(s, i + 1, ReWs)
         IN  IF /\ s[i] \in before
                /\ At(s, j, << after >>)
                /\ \E n \in (i + 1)..(j - 1) : s[n] = "\n"
             THEN << s[i], ",", "\n", after >>
                      \o CommaAcrossLines(s, j + 1, before, after)
             ELSE << s[i] >> \o CommaAcrossLines(s, i + 1, before, after)

\* _repair_json(text): the six substitutions in their order.
RepairJson(text) ==
    LET r1 == QuoteBareKeys(text, 1)
        r2 == DropTrailingCommas(r1, 1)
        r3 == CommaAcrossLines(r2, 1, { "}", "]", "\"" }, "\"")
        r4 == CommaAcrossLines(r3, 1, { "}", "]" }, "{")
        r5 == CommaAcrossLines(r4, 1, { "}", "]" }, "[")
    IN  CommaAcrossLines(r5, 1, { "\"" }, "\"")

\* ============================================================= _parse_json

\* The grave accent, which no string of this notation can hold.
GRAVE == "GRAVE"

FENCE == << GRAVE, GRAVE, GRAVE >>
FENCE_JSON == FENCE \o << "j","s","o","n" >>

\* text.find(sep) + 1: where sep first starts, 0 when it does not occur.
IndexOf(s, sep) ==
    IF Contains(s, sep)
    THEN CHOOSE i \in 1..Len(s) :
            /\ At(s, i, sep)
            /\ \A j \in 1..(i - 1) : ~At(s, j, sep)
    ELSE 0

\* text.split(sep)[0]
BeforeFirst(s, sep) ==
    IF Contains(s, sep) THEN SubSeq(s, 1, IndexOf(s, sep) - 1) ELSE s

\* text.split(sep)[1], for a text that holds sep: what stands between the
\* first sep and the next one.
SecondPart(s, sep) ==
    BeforeFirst(SubSeq(s, IndexOf(s, sep) + Len(sep), Len(s)), sep)

\* str.strip()
Strip(s) ==
    LET a == SkipWhile(s, 1, ReWs)
    IN  IF a > Len(s) THEN << >>
        ELSE SubSeq(s, a,
                    CHOOSE b \in a..Len(s) :
                        /\ s[b] \notin ReWs
                        /\ \A n \in (b + 1)..Len(s) : s[n] \in ReWs)

\* Stage 1: the text between the first ```json (failing that, the first ```)
\* and the next ```, stripped; the whole text when it holds no fence.
StripFences(text) ==
    IF Contains(text, FENCE_JSON)
    THEN Strip(BeforeFirst(SecondPart(text, FENCE_JSON), FENCE))
    ELSE IF Contains(text, FENCE)
         THEN Strip(BeforeFirst(SecondPart(text, FENCE), FENCE))
         ELSE text

\* Stage 2: the text from its first "{" on (a text that holds one).
FromFirstBrace(text) ==
    IF StartsWith(text, << "{" >>) THEN text
    ELSE SubSeq(text, FirstIn(text, { "{" }), Len(text))

\* Stage 4, the loop over enumerate(text) from index i on: the number of
\* characters up to the "}" that brings brace_count back to 0 (end_idx), 0
\* when the loop ends without it.
RECURSIVE BalancedEnd(_, _, _, _, _)
BalancedEnd(s, i, brace_count, in_string, escape_next) ==
    IF i > Len(s) THEN 0
    ELSE IF escape_next
         THEN BalancedEnd(s, i + 1, brace_count, in_string, FALSE)
    ELSE IF s[i] = "\\" /\ in_string
         THEN BalancedEnd(s, i + 1, brace_count, in_string, TRUE)
    ELSE IF s[i] = "\""
         THEN BalancedEnd(s, i + 1, brace_count, ~in_string, FALSE)
    ELSE IF in_string
         THEN BalancedEnd(s, i + 1, brace_count, in_string, FALSE)
    ELSE IF s[i] = "{"
         THEN BalancedEnd(s, i + 1, brace_count + 1, in_string, FALSE)
    ELSE IF s[i] = "}"
         THEN IF brace_count - 1 = 0 THEN i
              ELSE BalancedEnd(s, i + 1, brace_count - 1, in_string, FALSE)
    ELSE BalancedEnd(s, i + 1, brace_count, in_string, FALSE)

\* if end_idx > 0: text = text[:end_idx]
CutBalanced(text) ==
    LET end_idx == BalancedEnd(text, 1, 0, FALSE, FALSE)
    IN  IF end_idx > 0 THEN SubSeq(text, 1, end_idx) ELSE text

\* What a call of _parse_json ends with.  The message of a JSONDecodeError
\* (the decoder's account of where it stopped) is left empty.
ParseReturned(val) ==
    [ kind |-> "returned", value |-> val,
      error |-> [ type |-> "none", msg |-> << >> ] ]

ParseRaised(type, msg) ==
    [ kind |-> "raised", value |-> JLit(<< >>),
      error |-> [ type |-> type, msg |-> msg ] ]

ParsePending ==
    [ kind |-> "pending", value |-> JLit(<< >>),
      error |-> [ type |-> "none", msg |-> << >> ] ]

\* _parse_json(text) as one function: fences, first brace, json.loads,
\* repair and json.loads, balanced cut and json.loads, repair and json.loads.
ParseJson(text) ==
    LET stripped == StripFences(text)
        anchored == FromFirstBrace(stripped)
        cut == CutBalanced(anchored)
    IN  IF ~HasChar(stripped, "{")
        THEN ParseRaised("ValueError", ParseErrorMessage(stripped))
        ELSE IF JsonLoads(anchored).ok
        THEN ParseReturned(JsonLoads(anchored).val)
        ELSE IF JsonLoads(RepairJson(anchored)).ok
        THEN ParseReturned(JsonLoads(RepairJson(anchored)).val)
        ELSE IF JsonLoads(cut).ok
        THEN ParseReturned(JsonLoads(cut).val)
        ELSE IF JsonLoads(RepairJson(cut)).ok
        THEN ParseReturned(JsonLoads(RepairJson(cut)).val)
        ELSE ParseRaised("JSONDecodeError", << >>)

\* ------------------------------------------------ the texts given to it

\* Strictly valid JSON objects: a number; a string of commas and colons; a
\* string of braces; a string with an escaped quote; a string that is a
\* fence; nested containers; a string that ends in a comma and a brace.
\* '{"a": 1}'
OBJ_NUMBER ==
    << "{","\"","a","\"",":"," ","1","}" >>

\* '{"a": "x, y: z"}'
OBJ_PUNCTUATION ==
    << "{","\"","a","\"",":"," ","\"","x",","," ","y",":"," ","z","\"",
       "}" >>

\* '{"a": "}weird{"}'
OBJ_BRACES ==
    << "{","\"","a","\"",":"," ","\"","}","w","e","i","r","d","{","\"",
       "}" >>

\* '{"a": "q\"}"}'
OBJ_ESCAPED_QUOTE ==
    << "{","\"","a","\"",":"," ","\"","q","\\","\"","}","\"","}" >>

\* '{"a": "<grave><grave><grave>"}'
OBJ_FENCE ==
    << "{","\"","a","\"",":"," ","\"",GRAVE,GRAVE,GRAVE,"\"","}" >>

\* '{"a": [1, 2], "b": {"c": null}}'
OBJ_NESTED ==
    << "{","\"","a","\"",":"," ","[","1",","," ","2","]",","," ","\"","b",
       "\"",":"," ","{","\"","c","\"",":"," ","n","u","l","l","}","}" >>

\* '{"a": "x,}"}'
OBJ_COMMA_BRACE ==
    << "{","\"","a","\"",":"," ","\"","x",",","}","\"","}" >>

ValidObjects ==
    { OBJ_NUMBER, OBJ_PUNCTUATION, OBJ_BRACES, OBJ_ESCAPED_QUOTE, OBJ_FENCE,
      OBJ_NESTED, OBJ_COMMA_BRACE }

\* ' Done.'
TRAILING_PROSE ==
    << " ","D","o","n","e","." >>

\* The object inside a ```json fence, on lines of its own.
Fenced(j) == FENCE_JSON \o << "\n" >> \o j \o << "\n" >> \o FENCE

\* The object followed by prose.
WithProse(j) == j \o TRAILING_PROSE

\* The object with its first key written bare: {"a": ...} as {a: ...}.
WithBareKey(j) ==
    LET q == 2 + FirstIn(SubSeq(j, 3, Len(j)), { "\"" })
    IN  << "{" >> \o SubSeq(j, 3, q - 1) \o SubSeq(j, q + 1, Len(j))

\* The object with an extra comma before its closing brace.
WithTrailingComma(j) == SubSeq(j, 1, Len(j) - 1) \o << ",", "}" >>

\* '{"a": [1, 2,], "b": {"c": null}}'
TEXT_COMMA_IN_ARRAY ==
    << "{","\"","a","\"",":"," ","[","1",","," ","2",",","]",","," ","\"",
       "b","\"",":"," ","{","\"","c","\"",":"," ","n","u","l","l","}","}" >>

\* '[{"a":1},{"b":2}]'
TEXT_TOP_ARRAY ==
    << "[","{","\"","a","\"",":","1","}",",","{","\"","b","\"",":","2","}",
       "]" >>

\* '{"a":1}{"b":2}'
TEXT_TWO_OBJECTS ==
    << "{","\"","a","\"",":","1","}","{","\"","b","\"",":","2","}" >>

\* '{"a": 1'
TEXT_TRUNCATED ==
    << "{","\"","a","\"",":"," ","1" >>

\* '{"a":"x"\n"b":"y"}'
TEXT_MISSING_COMMA ==
    << "{","\"","a","\"",":","\"","x","\"","\n","\"","b","\"",":","\"","y",
       "\"","}" >>

\* '{"a":"x",\n"b":"y"}'
TEXT_WITH_COMMA ==
    << "{","\"","a","\"",":","\"","x","\"",",","\n","\"","b","\"",":","\"",
       "y","\"","}" >>

\* Prose without an object, longer than the preview of the error message.
TEXT_LONG_PROSE == [ i \in 1..(PREVIEW_LEN + Len(TEXT_PROSE)) |-> "x" ]

NoObject == << >>

\* A text, how it was made, and the strict JSON text of the object it
\* denotes (NoObject when it denotes no single object).
ParserInput(raw, shape, strict) ==
    [ raw |-> raw, shape |-> shape, strict |-> strict ]

ParserInputs ==
    { ParserInput(j, "valid", j) : j \in ValidObjects }
    \cup { ParserInput(Fenced(j), "fenced", j) : j \in ValidObjects }
    \cup { ParserInput(WithProse(j), "prose", j) : j \in ValidObjects }
    \cup { ParserInput(WithBareKey(j), "bare_key", j) : j \in ValidObjects }
    \cup { ParserInput(WithTrailingComma(j), "trailing_comma", j) :
             j \in ValidObjects }
    \cup { ParserInput(WithProse(WithBareKey(j)), "bare_key_prose", j) :
             j \in ValidObjects }
    \cup { ParserInput(TEXT_COMMA_IN_ARRAY, "trailing_comma", OBJ_NESTED),
           ParserInput(TEXT_MISSING_COMMA, "missing_comma", TEXT_WITH_COMMA),
           ParserInput(TEXT_TOP_ARRAY, "top_array", NoObject),
           ParserInput(TEXT_TWO_OBJECTS, "two_objects", NoObject),
           ParserInput(TEXT_TRUNCATED, "truncated", NoObject),
           ParserInput(TEXT_PROSE, "no_object", NoObject),
           ParserInput(TEXT_LONG_PROSE, "no_object", NoObject) }

\* -------------------------------------------- one call of _parse_json

\* No call of generate or get_company_context is under way.
CallIdle ==
    /\ entry = "none"
    /\ cfg = DefaultConfig
    /\ inp = [ url |-> << >>, credentials |-> {},
               fallback_on_error |-> FALSE, json_output |-> TRUE ]
    /\ pc = "idle"
    /\ attempt = 0
    /\ requests = 0
    /\ running = {}
    /\ history = << >>
    /\ last_error = NoError
    /\ sleeps = << >>
    /\ gen_outcome = NoOutcome
    /\ outcome = NoOutcome

\* _parse_json is entered with a text.
InitParse ==
    /\ CallIdle
    /\ assembly = AssemblyIdle
    /\ grounded = GroundedIdle
    /\ api = ApiIdle
    /\ store = StoreIdle
    /\ parser \in { [ pc |-> "fences", raw |-> i.raw, shape |-> i.shape,
                      strict |-> i.strict, text |-> i.raw,
                      result |-> ParsePending ] : i \in ParserInputs }

ParserEnds(result) ==
    parser' = [ parser EXCEPT !.pc = "done", !.result = result ]

\* Extract JSON from markdown if present
StripMarkdownFences ==
    /\ parser.pc = "fences"
    /\ parser' = [ parser EXCEPT !.pc = "anchor",
                                 !.text = StripFences(parser.text) ]
    /\ UNCHANGED << callVars, assembly, grounded, api, store >>

\* Find JSON object start
FindObjectStart ==
    /\ parser.pc = "anchor"
    /\ IF HasChar(parser.text, "{")
       THEN parser' = [ parser EXCEPT !.pc = "direct",
                                      !.text = FromFirstBrace(parser.text) ]
       ELSE ParserEnds(ParseRaised("ValueError",
                                   ParseErrorMessage(parser.text)))
    /\ UNCHANGED << callVars, assembly, grounded, api, store >>

\* A first stage that hands every text to the repair.
ParseDirectSkipped ==
    /\ parser.pc = "direct"
    /\ parser' = [ parser EXCEPT !.pc = "repair" ]
    /\ UNCHANGED << callVars, assembly, grounded, api, store >>

\* Try parsing directly first
ParseDirect ==
    /\ parser.pc = "direct"
    /\ IF JsonLoads(parser.text).ok
       THEN ParserEnds(ParseReturned(JsonLoads(parser.text).val))
       ELSE parser' = [ parser EXCEPT !.pc = "repair" ]
    /\ UNCHANGED << callVars, assembly, grounded, api, store >>

\* Try repair before balanced extraction
ParseRepaired ==
    /\ parser.pc = "repair"
    /\ LET repaired == RepairJson(parser.text)
       IN  IF JsonLoads(repaired).ok
           THEN ParserEnds(ParseReturned(JsonLoads(repaired).val))
           ELSE parser' = [ parser EXCEPT !.pc = "extract" ]
    /\ UNCHANGED << callVars, assembly, grounded, api, store >>

\* Fallback: Extract balanced JSON object
ExtractBalanced ==
    /\ parser.pc = "extract"
    /\ parser' = [ parser EXCEPT !.pc = "final",
                                 !.text = CutBalanced(parser.text) ]
    /\ UNCHANGED << callVars, assembly, grounded, api, store >>

\* json.loads of the extracted text
ParseExtracted ==
    /\ parser.pc = "final"
    /\ IF JsonLoads(parser.text).ok
       THEN ParserEnds(ParseReturned(JsonLoads(parser.text).val))
       ELSE parser' = [ parser EXCEPT !.pc = "final_repair" ]
    /\ UNCHANGED << callVars, assembly, grounded, api, store >>

\* Try to repair common JSON issues from Gemini: the last json.loads, whose
\* JSONDecodeError leaves _parse_json.
ParseExtractedRepaired ==
    /\ parser.pc = "final_repair"
    /\ LET repaired == RepairJson(parser.text)
       IN  IF JsonLoads(repaired).ok
           THEN ParserEnds(ParseReturned(JsonLoads(repaired).val))
           ELSE ParserEnds(ParseRaised("JSONDecodeError", << >>))
    /\ UNCHANGED << callVars, assembly, grounded, api, store >>

NextParse ==
    \/ StripMarkdownFences
    \/ FindObjectStart
    \/ ParseDirect
    \/ ParseRepaired
    \/ ExtractBalanced
    \/ ParseExtracted
    \/ ParseExtractedRepaired

SpecParse == InitParse /\ [][NextParse]_vars

\* ----------------------------------------------- claims on the parser

ParserDone == parser.pc = "done"

\* The mapping the text denotes.
Denoted == JsonLoads(parser.strict).val

ReturnsDenoted ==
    /\ parser.result.kind = "returned"
    /\ parser.strict # NoObject
    /\ SameValue(parser.result.value, Denoted)

\* The stages compose to the function.
StagesAreParseJson == ParserDone => parser.result = ParseJson(parser.raw)

\* C11 (as claimed): whenever _parse_json returns, the mapping is the JSON
\* object the response text denotes, no string value altered and no fragment
\* of the text taken for the whole; a text that denotes no object raises.
C11_NeverPartialOrWrong ==
    ( ParserDone /\ parser.result.kind = "returned" ) => ReturnsDenoted

\* C12 (as claimed): a strictly valid JSON object, bare or wrapped in a
\* ```json fence, is returned exactly as its strict parse, string values
\* that hold a fence included.
C12_ValidOrFencedIsExact ==
    ( ParserDone /\ parser.shape \in { "valid", "fenced" } ) => ReturnsDenoted

\* C13 (as claimed): a valid JSON object followed by trailing prose is
\* returned exactly, the text being cut at the brace that closes the object.
C13_TrailingProseIsCut ==
    ( ParserDone /\ parser.shape = "prose" ) => ReturnsDenoted

\* C14 (as claimed): a valid JSON object but for one bare identifier key is
\* returned as the object with that key quoted and everything else unchanged.
C14_BareKeyRecovered ==
    ( ParserDone /\ parser.shape = "bare_key" ) => ReturnsDenoted

\* C15 (as claimed): a valid JSON object but for one extra comma before a
\* closing brace or bracket is returned as the strict parse of the text
\* without that comma.
C15_TrailingCommaRecovered ==
    ( ParserDone /\ parser.shape = "trailing_comma" ) => ReturnsDenoted

\* The text after fence stripping, after anchoring at its first "{", and
\* after the truncation at the brace that closes its first object.
Stripped == StripFences(parser.raw)
Anchored == FromFirstBrace(Stripped)
Truncated == CutBalanced(Anchored)

\* json.loads(text) returns.
Parses(text) == JsonLoads(text).ok

\* The texts of the four parse attempts, in the order of the stages: strict
\* parse, repair-then-parse, and both again after the truncation.
Attempts ==
    << Anchored, RepairJson(Anchored), Truncated, RepairJson(Truncated) >>

\* The parse attempts that precede the stage the call stands at.
AttemptsBefore ==
    CASE parser.pc = "repair" -> 1
      [] parser.pc \in { "extract", "final" } -> 2
      [] parser.pc = "final_repair" -> 3
      [] OTHER -> 0

\* C24: _parse_json applies its stages in order (fence stripping, anchoring
\* at the first "{", strict parse, repair-then-parse, balanced-brace
\* truncation, strict parse, repair-then-parse): the text a stage works on is
\* the one the stages before it produced, a parse stage is reached only when
\* every earlier parse attempt has failed, and the call returns the parse of
\* the first attempt that succeeds; text that is strictly valid JSON after
\* anchoring is returned as parsed, neither repaired nor truncated.
C24_StagesInOrder ==
    /\ parser.pc = "fences" => parser.text = parser.raw
    /\ parser.pc = "anchor" => parser.text = Stripped
    /\ parser.pc \in { "direct", "repair", "extract" } =>
          parser.text = Anchored
    /\ parser.pc \in { "final", "final_repair" } => parser.text = Truncated
    /\ parser.pc \in { "direct", "repair", "extract", "final", "final_repair" } =>
          /\ HasChar(Stripped, "{")
          /\ \A k \in 1..AttemptsBefore : ~Parses(Attempts[k])
    /\ ( ParserDone /\ HasChar(Stripped, "{") ) =>
          IF \E k \in 1..4 : Parses(Attempts[k])
          THEN LET first == CHOOSE k \in 1..4 :
                              /\ Parses(Attempts[k])
                              /\ \A j \in 1..(k - 1) : ~Parses(Attempts[j])
               IN  /\ parser.result = ParseReturned(JsonLoads(Attempts[first]).val)
                   /\ parser.text = IF first <= 2 THEN Anchored ELSE Truncated
          ELSE parser.result.kind = "raised"
    /\ ( ParserDone /\ HasChar(Stripped, "{") /\ Parses(Anchored) ) =>
          /\ parser.result = ParseReturned(JsonLoads(Anchored).val)
          /\ parser.text = Anchored

\* C24 witness: a call has returned the strict parse of the truncated text,
\* after the strict parse and the repaired parse of the anchored text failed.
C24_Witness ==
    /\ ParserDone
    /\ HasChar(Stripped, "{")
    /\ ~Parses(Anchored)
    /\ ~Parses(RepairJson(Anchored))
    /\ Truncated # Anchored
    /\ Parses(Truncated)
    /\ parser.result.kind = "returned"

\* The parse error of a text without "{" has been raised.
NoBraceRaised ==
    /\ parser.result.kind = "raised"
    /\ parser.result.error.type = "ValueError"
    /\ StartsWith(parser.result.error.msg, COULD_NOT_FIND)

\* What the message holds after its fixed opening words.
Preview ==
    SubSeq(parser.result.error.msg, Len(COULD_NOT_FIND) + 1,
           Len(parser.result.error.msg))

\* Every attempt failed: the call raises the decode error of the last one,
\* and a call that returns, returns a mapping.
DecodeErrorOrMapping ==
    /\ ( ParserDone /\ HasChar(Stripped, "{")
           /\ \A k \in 1..4 : ~Parses(Attempts[k]) ) =>
          /\ parser.result.kind = "raised"
          /\ parser.result.error.type = "JSONDecodeError"
    /\ ( ParserDone /\ parser.result.kind = "returned" ) =>
          parser.result.value.t = "obj"
    /\ ParserDone => parser.result.kind \in { "returned", "raised" }

\* C25 (as claimed): when the text left after fence stripping holds no "{",
\* _parse_json raises a ValueError whose message carries a preview of at
\* most the first 200 characters of that text and never the whole response;
\* when a "{" exists but every parse stage fails the JSON decode error of the
\* final attempt is raised, and no call returns None or a non-mapping.
C25_PreviewNeverWhole ==
    /\ ( ParserDone /\ ~HasChar(Stripped, "{") ) =>
          /\ NoBraceRaised
          /\ Len(Preview) <= PREVIEW_LEN
          /\ StartsWith(Stripped, Preview)
          /\ ~Contains(parser.result.error.msg, parser.raw)
    /\ DecodeErrorOrMapping

\* C25 (amended): when the text left after fence stripping holds no "{",
\* _parse_json raises a ValueError whose message ends with the first 200
\* characters of that text, which is the whole text when it has no more than
\* 200 characters; when a "{" exists but every parse stage fails the JSON
\* decode error of the final attempt is raised, and no call returns None or
\* a non-mapping.
C25_PreviewIsFirst200 ==
    /\ ( ParserDone /\ ~HasChar(Stripped, "{") ) =>
          /\ NoBraceRaised
          /\ Len(Preview) = Min(Len(Stripped), PREVIEW_LEN)
          /\ StartsWith(Stripped, Preview)
    /\ DecodeErrorOrMapping

\* C25 witness: a text of more than 200 characters without "{" was given,
\* and the message of the ValueError holds 200 of them.
C25_Witness ==
    /\ ParserDone
    /\ ~HasChar(Stripped, "{")
    /\ Len(Stripped) > PREVIEW_LEN
    /\ NoBraceRaised
    /\ Len(Preview) = PREVIEW_LEN

\* ================================================== the data models
\* A value of a mapping is written as a decoded JSON value, its keys as
\* strings; an instance of a model class is the record of its class name t
\* and its (field, value) pairs v in the order of declaration.

NULL == JLit(WORD_NULL)

\* x is None
IsNone(x) == x.t = "lit" /\ x.v = WORD_NULL
EMPTY_STR == JStr(<< >>)
EMPTY_LIST == JArr(<< >>)
EMPTY_DICT == JObj(<< >>)

\* bool(x)
Truthy(x) ==
    CASE x.t \in { "str", "arr", "obj" } -> Len(x.v) > 0
      [] x.t = "num" -> x.v # << "0" >>
      [] x.t = "lit" -> x.v = WORD_TRUE
      [] OTHER -> TRUE

\* key in d, d.get(key, default), d[key] = val
HasField(d, key) == \E n \in 1..Len(d.v) : d.v[n].k = key

Get(d, key, default) ==
    IF HasField(d, key)
    THEN d.v[CHOOSE n \in 1..Len(d.v) : d.v[n].k = key].val
    ELSE default

Put(d, key, val) == [ d EXCEPT !.v = SetKey(d.v, key, val) ]

\* Field(default=...), Field(default_factory=list), Field(...)
StrField(name, default) ==
    [ name |-> name, kind |-> "str", cls |-> "", required |-> FALSE,
      default |-> JStr(default) ]
OptStrField(name, default) ==
    [ name |-> name, kind |-> "optstr", cls |-> "", required |-> FALSE,
      default |-> JStr(default) ]
ListField(name) ==
    [ name |-> name, kind |-> "list", cls |-> "", required |-> FALSE,
      default |-> EMPTY_LIST ]
RequiredStrField(name) ==
    [ name |-> name, kind |-> "str", cls |-> "", required |-> TRUE,
      default |-> NULL ]
ModelField(name, cls) ==
    [ name |-> name, kind |-> "model", cls |-> cls, required |-> FALSE,
      default |-> NULL ]
ModelListField(name, cls) ==
    [ name |-> name, kind |-> "modellist", cls |-> cls, required |-> FALSE,
      default |-> EMPTY_LIST ]

\* The defaults the classes state.
PROFESSIONAL == << "p","r","o","f","e","s","s","i","o","n","a","l" >>
MODERATE == << "m","o","d","e","r","a","t","e" >>
MIXED == << "m","i","x","e","d" >>
EXPERT_TO_LEARNER == << "e","x","p","e","r","t","-","t","o","-","l","e","a","r","n","e","r" >>
HERO == << "h","e","r","o" >>
COUNTRY_US == << "U","S" >>
LANGUAGE_EN == << "e","n" >>

ModelClasses ==
    { "LanguageStyle", "VoicePersona", "AuthorInfo", "BlogImageExample",
      "VisualIdentity", "CompanyContext" }

\* The fields each class declares, in their order.
Fields(cls) ==
    CASE cls = "LanguageStyle" ->
           << OptStrField("formality", PROFESSIONAL),
              OptStrField("complexity", MODERATE),
              OptStrField("sentence_length", MIXED),
              OptStrField("perspective", EXPERT_TO_LEARNER) >>
      [] cls = "VoicePersona" ->
           << OptStrField("icp_profile", << >>),
              OptStrField("voice_style", << >>),
              ModelField("language_style", "LanguageStyle"),
              ListField("sentence_patterns"),
              OptStrField("vocabulary_level", << >>),
              ListField("authority_signals"),
              ListField("do_list"),
              ListField("dont_list"),
              ListField("example_phrases"),
              ListField("opening_styles") >>
      [] cls = "AuthorInfo" ->
           << RequiredStrField("name"),
              StrField("title", << >>),
              StrField("bio", << >>),
              StrField("image_url", << >>),
              StrField("linkedin_url", << >>),
              StrField("twitter_url", << >>) >>
      [] cls = "BlogImageExample" ->
           << RequiredStrField("url"),
              StrField("description", << >>),
              StrField("image_type", HERO) >>
      [] cls = "VisualIdentity" ->
           << ListField("brand_colors"),
              ListField("secondary_colors"),
              OptStrField("visual_style", << >>),
              ListField("design_elements"),
              OptStrField("typography_style", << >>),
              OptStrField("image_style_prompt", << >>),
              ModelListField("blog_image_examples", "BlogImageExample"),
              OptStrField("mood", << >>),
              ListField("avoid_in_images") >>
      [] cls = "CompanyContext" ->
           << StrField("company_name", << >>),
              StrField("company_url", << >>),
              StrField("industry", << >>),
              StrField("description", << >>),
              ListField("products"),
              StrField("target_audience", << >>),
              ListField("competitors"),
              ListField("competitor_categories"),
              StrField("primary_region", << >>),
              StrField("primary_country", COUNTRY_US),
              StrField("primary_language", LANGUAGE_EN),
              StrField("tone", PROFESSIONAL),
              ListField("pain_points"),
              ListField("value_propositions"),
              ListField("use_cases"),
              ListField("content_themes"),
              ModelField("voice_persona", "VoicePersona"),
              ModelField("visual_identity", "VisualIdentity"),
              ModelListField("authors", "AuthorInfo") >>

\* What constructing or assembling ends with: the value built, or an
\* exception (pydantic's ValidationError, a TypeError).
Built(val) == [ ok |-> TRUE, val |-> val ]
Invalid == [ ok |-> FALSE, val |-> NULL ]

\* A str field that takes None as well.
ValidStrOrNone(x) == x.t = "str" \/ IsNone(x)

\* A field declared str takes a string and nothing else (no number, no None).
ValidStr(x) == x.t = "str"

\* cls(**kwargs): every declared field validated or defaulted, every other
\* key ignored; a nested mapping is constructed, a nested instance taken as
\* it is.
RECURSIVE Construct(_, _), ValidateField(_, _)
ValidateField(f, x) ==
    CASE f.kind = "str" -> IF ValidStr(x) THEN Built(x) ELSE Invalid
      [] f.kind = "optstr" ->
           IF x.t = "str" \/ IsNone(x) THEN Built(x) ELSE Invalid
      [] f.kind = "list" ->
           IF x.t = "arr" /\ \A n \in 1..Len(x.v) : x.v[n].t = "str"
           THEN Built(x) ELSE Invalid
      [] f.kind = "model" ->
           IF x.t = f.cls THEN Built(x)
           ELSE IF x.t = "obj" THEN Construct(f.cls, x)
           ELSE Invalid
      [] f.kind = "modellist" ->
           IF x.t # "arr" THEN Invalid
           ELSE LET items == [ n \in 1..Len(x.v) |->
                                 ValidateField(ModelField("item", f.cls),
                                               x.v[n]) ]
                IN  IF \A n \in 1..Len(x.v) : items[n].ok
                    THEN Built(JArr([ n \in 1..Len(x.v) |-> items[n].val ]))
                    ELSE Invalid

Construct(cls, kwargs) ==
    LET fs == Fields(cls)
        one(f) ==
            IF HasField(kwargs, f.name)
            THEN ValidateField(f, Get(kwargs, f.name, NULL))
            ELSE IF f.required THEN Invalid
            ELSE IF f.kind = "model" THEN Construct(f.cls, EMPTY_DICT)
            ELSE Built(f.default)
        vals == [ n \in 1..Len(fs) |-> one(fs[n]) ]
    IN  IF \A n \in 1..Len(fs) : vals[n].ok
        THEN Built([ t |-> cls,
                     v |-> [ n \in 1..Len(fs) |->
                               [ k |-> fs[n].name, val |-> vals[n].val ] ] ])
        ELSE Invalid

\* ------------------------------------------- CompanyContext.from_dict

\* Handle voice_persona separately: the mapping with its persona built.
WithVoicePersona(data) ==
    LET voice_data == Get(data, "voice_persona", EMPTY_DICT)
    IN  IF ~( Truthy(voice_data) /\ voice_data.t = "obj" ) THEN Built(data)
        ELSE LET lang == Get(voice_data, "language_style", EMPTY_DICT)
                 nested == Truthy(lang) /\ lang.t = "obj"
                 style == IF nested THEN Construct("LanguageStyle", lang)
                          ELSE Built(lang)
                 persona ==
                     Construct("VoicePersona",
                               IF nested
                               THEN Put(voice_data, "language_style", style.val)
                               ELSE voice_data)
             IN  IF style.ok /\ persona.ok
                 THEN Built(Put(data, "voice_persona", persona.val))
                 ELSE Invalid

\* for ex in examples: a mapping is constructed inside try / except and
\* left out when that fails, an instance is kept, anything else left out.
RECURSIVE KeptExamples(_)
KeptExamples(items) ==
    IF Len(items) = 0 THEN << >>
    ELSE LET ex == Head(items)
             rest == KeptExamples(Tail(items))
         IN  IF ex.t = "obj"
             THEN IF Construct("BlogImageExample", ex).ok
                  THEN << Construct("BlogImageExample", ex).val >> \o rest
                  ELSE rest
             ELSE IF ex.t = "BlogImageExample" THEN << ex >> \o rest
             ELSE rest

\* Handle visual_identity separately.  A truthy examples value that is no
\* list is iterated all the same: a string or a mapping yields no example, a
\* number or True raises TypeError.
WithVisualIdentity(data) ==
    LET visual_data == Get(data, "visual_identity", EMPTY_DICT)
    IN  IF ~( Truthy(visual_data) /\ visual_data.t = "obj" ) THEN Built(data)
        ELSE LET examples == Get(visual_data, "blog_image_examples", EMPTY_LIST)
                 iterable == examples.t \notin { "num", "lit" }
                 parsed == IF examples.t = "arr"
                           THEN JArr(KeptExamples(examples.v))
                           ELSE EMPTY_LIST
                 visual ==
                     Construct("VisualIdentity",
                               IF Truthy(examples)
                               THEN Put(visual_data, "blog_image_examples",
                                        parsed)
                               ELSE visual_data)
             IN  IF ( Truthy(examples) => iterable ) /\ visual.ok
                 THEN Built(Put(data, "visual_identity", visual.val))
                 ELSE Invalid

\* Clean None values to empty strings for optional fields
CleanedAuthor(author) ==
    [ author EXCEPT !.v =
        [ n \in 1..Len(author.v) |->
            IF IsNone(author.v[n].val)
            THEN [ k |-> author.v[n].k, val |-> EMPTY_STR ]
            ELSE author.v[n] ] ]

\* if isinstance(author, dict) and author.get("name")
IsNamedAuthor(author) ==
    author.t = "obj" /\ Truthy(Get(author, "name", NULL))

\* for author in authors_data: a mapping with a name is cleaned and
\* constructed, outside any try; anything else is left out.
RECURSIVE ParsedAuthors(_)
ParsedAuthors(items) ==
    IF Len(items) = 0 THEN Built(<< >>)
    ELSE LET author == Head(items)
             rest == ParsedAuthors(Tail(items))
         IN  IF ~IsNamedAuthor(author) THEN rest
             ELSE LET built == Construct("AuthorInfo", CleanedAuthor(author))
                  IN  IF built.ok /\ rest.ok
                      THEN Built(<< built.val >> \o rest.val)
                      ELSE Invalid

\* Handle authors separately
WithAuthors(data) ==
    LET authors_data == Get(data, "authors", EMPTY_LIST)
    IN  IF ~( Truthy(authors_data) /\ authors_data.t = "arr" ) THEN Built(data)
        ELSE LET parsed == ParsedAuthors(authors_data.v)
             IN  IF parsed.ok
                 THEN Built(Put(data, "authors", JArr(parsed.val)))
                 ELSE Invalid

\* {k: v for k, v in data.items() if k in cls.model_fields}
OnlyModelFields(data) ==
    LET fs == Fields("CompanyContext")
    IN  [ data EXCEPT !.v =
            SelectSeq(data.v,
                      LAMBDA p : \E n \in 1..Len(fs) : fs[n].name = p.k) ]

\* CompanyContext.from_dict(data)
FromDict(data) ==
    IF ~Truthy(data) THEN Construct("CompanyContext", EMPTY_DICT)
    ELSE LET voiced == WithVoicePersona(data)
             visual == WithVisualIdentity(voiced.val)
             authored == WithAuthors(visual.val)
         IN  IF ~voiced.ok THEN Invalid
             ELSE IF ~visual.ok THEN Invalid
             ELSE IF ~authored.ok THEN Invalid
             ELSE Construct("CompanyContext", OnlyModelFields(authored.val))

\* A dump that leaves nested instances as they are.
ModelDumpShallow(x) ==
    IF x.t \in ModelClasses THEN JObj(x.v) ELSE x

\* model_dump(): every instance, nested ones included, as a mapping.
RECURSIVE ModelDump(_)
ModelDump(x) ==
    IF x.t \in ModelClasses
    THEN JObj([ n \in 1..Len(x.v) |->
                  [ k |-> x.v[n].k, val |-> ModelDump(x.v[n].val) ] ])
    ELSE IF x.t = "arr"
    THEN JArr([ n \in 1..Len(x.v) |-> ModelDump(x.v[n]) ])
    ELSE x

\* ------------------------------------------- the mappings assembled

\* 'Ann'
NAME_ANN == << "A","n","n" >>
\* 'Bob'
NAME_BOB == << "B","o","b" >>
\* 'Cy'
NAME_CY == << "C","y" >>
\* 'CEO'
TITLE_CEO == << "C","E","O" >>
\* 'Acme'
COMPANY_ACME == << "A","c","m","e" >>
\* 'SaaS'
INDUSTRY_SAAS == << "S","a","a","S" >>
\* 'friendly'
TONE_FRIENDLY == << "f","r","i","e","n","d","l","y" >>
\* 'App'
PRODUCT_APP == << "A","p","p" >>
\* 'Devs'
ICP_DEVS == << "D","e","v","s" >>
\* 'casual'
FORMALITY_CASUAL == << "c","a","s","u","a","l" >>
\* 'Be brief'
DO_BE_BRIEF == << "B","e"," ","b","r","i","e","f" >>
\* '#fff'
COLOR_WHITE == << "#","f","f","f" >>
\* 'u.png'
IMAGE_URL == << "u",".","p","n","g" >>
\* 'team'
IMAGE_NOTE == << "t","e","a","m" >>
\* 'httpbin.org'
URL_HTTP_HOST == << "h","t","t","p","b","i","n",".","o","r","g" >>
\* 'awww.io'
URL_INNER_WWW == << "a","w","w","w",".","i","o" >>

\* Largest number of entries of an authors list.
MaxAuthors == 2

Pair(key, val) == [ k |-> key, val |-> val ]

\* A key the mapping does not hold.
ABSENT == [ t |-> "absent", v |-> << >> ]

Keyed(key, val) == IF val.t = "absent" THEN << >> ELSE << Pair(key, val) >>

\* Author entries: complete; with a null title; without a name; no mapping;
\* with a number for its title; with a number for its name.
AUTHOR_FULL ==
    JObj(<< Pair("name", JStr(NAME_ANN)), Pair("title", JStr(TITLE_CEO)) >>)
AUTHOR_NULL_TITLE ==
    JObj(<< Pair("name", JStr(NAME_BOB)), Pair("title", NULL) >>)
AUTHOR_NO_NAME == JObj(<< Pair("title", JStr(TITLE_CEO)) >>)
AUTHOR_NOT_MAPPING == JStr(NAME_ANN)
AUTHOR_BAD_TITLE ==
    JObj(<< Pair("name", JStr(NAME_CY)), Pair("title", JNum(<< "5" >>)) >>)
AUTHOR_BAD_NAME == JObj(<< Pair("name", JNum(<< "7" >>)) >>)

AuthorEntries ==
    << AUTHOR_FULL, AUTHOR_NULL_TITLE, AUTHOR_NO_NAME, AUTHOR_NOT_MAPPING,
       AUTHOR_BAD_TITLE, AUTHOR_BAD_NAME >>

\* The authors list of the entries that `choice` numbers; no authors key
\* for the choice NoAuthorsKey.
NoAuthorsKey == << 0 >>

AuthorChoices ==
    { NoAuthorsKey } \cup
    UNION { [ 1..n -> 1..Len(AuthorEntries) ] : n \in 0..MaxAuthors }

AuthorList(choice) ==
    IF choice = NoAuthorsKey THEN ABSENT
    ELSE JArr([ i \in 1..Len(choice) |-> AuthorEntries[choice[i]] ])

\* Personas: populated; with explicit nulls; with a string for a list.
VOICE_FULL ==
    JObj(<< Pair("icp_profile", JStr(ICP_DEVS)),
            Pair("language_style",
                 JObj(<< Pair("formality", JStr(FORMALITY_CASUAL)) >>)),
            Pair("do_list", JArr(<< JStr(DO_BE_BRIEF) >>)) >>)
VOICE_NULLS ==
    JObj(<< Pair("icp_profile", NULL),
            Pair("language_style", JObj(<< Pair("formality", NULL) >>)) >>)
VOICE_BAD_LIST == JObj(<< Pair("do_list", JStr(DO_BE_BRIEF)) >>)

\* Blog image entries: complete; without url; no mapping; a number for url.
IMAGE_FULL ==
    JObj(<< Pair("url", JStr(IMAGE_URL)),
            Pair("description", JStr(IMAGE_NOTE)) >>)
IMAGE_NO_URL == JObj(<< Pair("description", JStr(IMAGE_NOTE)) >>)
IMAGE_NOT_MAPPING == JStr(IMAGE_URL)
IMAGE_BAD_URL == JObj(<< Pair("url", JNum(<< "3" >>)) >>)

\* Visual identities: with examples of every sort; with a null mood.
VISUAL_MIXED ==
    JObj(<< Pair("brand_colors", JArr(<< JStr(COLOR_WHITE) >>)),
            Pair("blog_image_examples",
                 JArr(<< IMAGE_NO_URL, IMAGE_FULL, IMAGE_NOT_MAPPING,
                         IMAGE_BAD_URL >>)) >>)
VISUAL_NULL_MOOD == JObj(<< Pair("mood", NULL) >>)

\* The top-level fields: populated, with a key the model does not declare;
\* the company name alone; a null for a field declared str.
TOP_FULL ==
    << Pair("company_name", JStr(COMPANY_ACME)),
       Pair("industry", JStr(INDUSTRY_SAAS)),
       Pair("products", JArr(<< JStr(PRODUCT_APP) >>)),
       Pair("tone", JStr(TONE_FRIENDLY)),
       Pair("confidence", JNum(<< "1" >>)) >>
TOP_SPARSE == << Pair("company_name", JStr(COMPANY_ACME)) >>
TOP_NULL_INDUSTRY ==
    << Pair("company_name", JStr(COMPANY_ACME)), Pair("industry", NULL) >>

\* What goes with an authors list: top-level fields, persona, visuals.
Surroundings ==
    << << TOP_FULL, VOICE_FULL, VISUAL_MIXED >>,
       << TOP_FULL, ABSENT, ABSENT >>,
       << TOP_SPARSE, VOICE_NULLS, VISUAL_NULL_MOOD >>,
       << TOP_SPARSE, VOICE_BAD_LIST, ABSENT >>,
       << TOP_NULL_INDUSTRY, ABSENT, ABSENT >>,
       << << >>, ABSENT, ABSENT >> >>

\* The mapping given to from_dict: surroundings s with authors list a.
Mapping(s, a) ==
    JObj(s[1] \o Keyed("voice_persona", s[2])
              \o Keyed("visual_identity", s[3]) \o Keyed("authors", a))

\* The URLs given to basic_company_detection: those of the callers, a host
\* that begins with "http", a host that holds "www." further in.
DetectionUrls == Urls \cup { URL_HTTP_HOST, URL_INNER_WWW }

\* basic_company_detection: the CompanyContext it constructs, of which
\* BasicDetection shows the fields its callers look at.
BasicCompanyContext(url) ==
    Construct("CompanyContext",
              JObj(<< Pair("company_name", JStr(BasicDetection(url).company_name)),
                      Pair("company_url", JStr(BasicDetection(url).company_url)),
                      Pair("industry", EMPTY_STR),
                      Pair("description", EMPTY_STR),
                      Pair("products", EMPTY_LIST),
                      Pair("target_audience", EMPTY_STR),
                      Pair("competitors", EMPTY_LIST),
                      Pair("tone", JStr(PROFESSIONAL)),
                      Pair("pain_points", EMPTY_LIST),
                      Pair("value_propositions", EMPTY_LIST),
                      Pair("use_cases", EMPTY_LIST),
                      Pair("content_themes", EMPTY_LIST) >>))

\* ------------------------------------ one assembly, and its round trip

NotYet == [ ok |-> FALSE, val |-> JLit(<< >>) ]

Assembling(op, source) ==
    [ pc |-> "call", op |-> op, source |-> source, result |-> NotYet,
      dumped |-> EMPTY_DICT, again |-> NotYet ]

\* from_dict is called with a mapping, or basic_company_detection with a URL.
InitAssemble ==
    /\ CallIdle
    /\ parser = ParserIdle
    /\ grounded = GroundedIdle
    /\ api = ApiIdle
    /\ store = StoreIdle
    /\ \/ \E n \in 1..Len(Surroundings), choice \in AuthorChoices :
              assembly = Assembling("from_dict",
                                    Mapping(Surroundings[n], AuthorList(choice)))
       \/ \E u \in DetectionUrls : assembly = Assembling("basic", JStr(u))

AssemblyEnds(result) ==
    assembly' = [ assembly EXCEPT
                    !.pc = IF result.ok THEN "assembled" ELSE "done",
                    !.result = result ]

\* CompanyContext.from_dict(data) returns or raises.
AssembleFromDict ==
    /\ assembly.pc = "call"
    /\ assembly.op = "from_dict"
    /\ AssemblyEnds(FromDict(assembly.source))
    /\ UNCHANGED << callVars, parser, grounded, api, store >>

\* basic_company_detection(url) returns or raises.
AssembleBasic ==
    /\ assembly.pc = "call"
    /\ assembly.op = "basic"
    /\ AssemblyEnds(IF BasicDetectionRaises(assembly.source.v) THEN Invalid
                    ELSE BasicCompanyContext(assembly.source.v))
    /\ UNCHANGED << callVars, parser, grounded, api, store >>

\* context.model_dump()
DumpContext ==
    /\ assembly.pc = "assembled"
    /\ assembly' = [ assembly EXCEPT
                       !.pc = "dumped",
                       !.dumped = ModelDump(assembly.result.val) ]
    /\ UNCHANGED << callVars, parser, grounded, api, store >>

\* CompanyContext.from_dict of the dumped mapping.
AssembleAgain ==
    /\ assembly.pc = "dumped"
    /\ assembly' = [ assembly EXCEPT
                       !.pc = "done",
                       !.again = FromDict(assembly.dumped) ]
    /\ UNCHANGED << callVars, parser, grounded, api, store >>

NextAssemble ==
    \/ AssembleFromDict
    \/ AssembleBasic
    \/ DumpContext
    \/ AssembleAgain

SpecAssemble == InitAssemble /\ [][NextAssemble]_vars

\* --------------------------------------------- claims on the assembly

\* The call of `op` has ended.
AssemblyCalled(op) == assembly.op = op /\ assembly.pc # "call"

Context == assembly.result.val

\* context.<name>
Attr(x, name) == Get(x, name, ABSENT)

\* The authors list, and the blog image examples, of the source mapping.
AuthorsGiven == Get(assembly.source, "authors", EMPTY_LIST)

ExamplesGiven ==
    Get(Get(assembly.source, "visual_identity", EMPTY_DICT),
        "blog_image_examples", EMPTY_LIST)

\* The source mapping with no author and no blog image example.
SourceWithoutEntries ==
    LET visual == Get(assembly.source, "visual_identity", EMPTY_DICT)
        emptied == Put(assembly.source, "authors", EMPTY_LIST)
    IN  IF HasField(assembly.source, "visual_identity")
        THEN Put(emptied, "visual_identity",
                 Put(visual, "blog_image_examples", EMPTY_LIST))
        ELSE emptied

\* An entry that has a name: a mapping whose name is neither missing, null
\* nor empty.
HasName(item) ==
    /\ item.t = "obj"
    /\ HasField(item, "name")
    /\ ~IsNone(Attr(item, "name"))
    /\ Attr(item, "name").v # << >>

\* An entry all of whose declared fields have their declared type.
WellTyped(item, required, optional) ==
    /\ item.t = "obj"
    /\ HasField(item, required)
    /\ Attr(item, required).t = "str"
    /\ \A n \in 1..Len(item.v) :
          item.v[n].k \in optional =>
              ( item.v[n].val.t = "str" \/ IsNone(item.v[n].val) )

WellFormedAuthor(item) ==
    /\ HasName(item)
    /\ WellTyped(item, "name",
                 { "title", "bio", "image_url", "linkedin_url", "twitter_url" })

WellFormedImage(item) ==
    /\ WellTyped(item, "url", { })
    /\ \A n \in 1..Len(item.v) :
          item.v[n].k \in { "description", "image_type" } =>
              item.v[n].val.t = "str"

\* kept[n] is the entry given[n] for every n: the same value under `key`.
SameEntries(kept, given, key) ==
    /\ Len(kept) = Len(given)
    /\ \A n \in 1..Len(kept) :
          SameValue(Attr(kept[n], key), Attr(given[n], key))

\* C16 (as claimed): from_dict keeps exactly the author entries that have a
\* name, in their order, and drops the entries lacking a name without
\* failing.
C16_KeepsNamedAuthors ==
    ( /\ AssemblyCalled("from_dict")
      /\ AuthorsGiven.t = "arr"
      /\ FromDict(SourceWithoutEntries).ok ) =>
        /\ assembly.result.ok
        /\ SameEntries(Attr(Context, "authors").v,
                       SelectSeq(AuthorsGiven.v, HasName), "name")

\* C17 (as claimed): malformed author or blog image entries never make
\* from_dict raise: each offending entry (no mapping, name or url missing, a
\* wrongly typed field) is skipped, the others are kept, the assembly succeeds.
C17_MalformedEntriesSkipped ==
    ( /\ AssemblyCalled("from_dict")
      /\ AuthorsGiven.t = "arr"
      /\ ExamplesGiven.t = "arr"
      /\ FromDict(SourceWithoutEntries).ok ) =>
        /\ assembly.result.ok
        /\ SameEntries(Attr(Context, "authors").v,
                       SelectSeq(AuthorsGiven.v, WellFormedAuthor), "name")
        /\ SameEntries(Attr(Attr(Context, "visual_identity"),
                            "blog_image_examples").v,
                       SelectSeq(ExamplesGiven.v, WellFormedImage), "url")

\* The fields of each class by what the claim calls them: string fields and
\* list fields.
ContextStrings ==
    { "company_name", "company_url", "industry", "description",
      "target_audience", "primary_region", "primary_country",
      "primary_language", "tone" }
ContextLists ==
    { "products", "competitors", "competitor_categories", "pain_points",
      "value_propositions", "use_cases", "content_themes", "authors" }
PersonaStrings == { "icp_profile", "voice_style", "vocabulary_level" }
PersonaLists ==
    { "sentence_patterns", "authority_signals", "do_list", "dont_list",
      "example_phrases", "opening_styles" }
StyleStrings == { "formality", "complexity", "sentence_length", "perspective" }
VisualStrings ==
    { "visual_style", "typography_style", "image_style_prompt", "mood" }
VisualLists ==
    { "brand_colors", "secondary_colors", "design_elements",
      "blog_image_examples", "avoid_in_images" }
AuthorStrings ==
    { "name", "title", "bio", "image_url", "linkedin_url", "twitter_url" }
ImageStrings == { "url", "description", "image_type" }

AreStrings(x, names) == \A name \in names : Attr(x, name).t = "str"
AreLists(x, names) == \A name \in names : Attr(x, name).t = "arr"
AreStringsOrNone(x, names) ==
    \A name \in names : Attr(x, name).t = "str" \/ IsNone(Attr(x, name))

Persona == Attr(Context, "voice_persona")
Style == Attr(Persona, "language_style")
Visual == Attr(Context, "visual_identity")

\* The default the claim documents for a string field.
DocumentedDefault(name) ==
    CASE name = "primary_country" -> COUNTRY_US
      [] name = "primary_language" -> LANGUAGE_EN
      [] name = "tone" -> PROFESSIONAL
      [] OTHER -> << >>

\* A CompanyContext was produced, by from_dict or by basic detection.
Produced ==
    /\ assembly.op \in { "from_dict", "basic" }
    /\ assembly.pc # "call"
    /\ assembly.result.ok

\* What the claim says of the fields declared str or List: their types, the
\* defaults of missing keys, and nothing but the declared fields.
DeclaredFieldsTyped ==
    /\ AreStrings(Context, ContextStrings)
    /\ AreLists(Context, ContextLists)
    /\ AreLists(Persona, PersonaLists)
    /\ AreLists(Visual, VisualLists)
    /\ \A n \in 1..Len(Attr(Context, "authors").v) :
          AreStrings(Attr(Context, "authors").v[n], AuthorStrings)
    /\ \A n \in 1..Len(Attr(Visual, "blog_image_examples").v) :
          AreStrings(Attr(Visual, "blog_image_examples").v[n], ImageStrings)
    /\ { Context.v[n].k : n \in 1..Len(Context.v) } =
          ContextStrings \cup ContextLists
              \cup { "voice_persona", "visual_identity" }
    /\ assembly.op = "from_dict" =>
          /\ \A name \in ContextStrings :
                ~HasField(assembly.source, name) =>
                    Attr(Context, name).v = DocumentedDefault(name)
          /\ \A name \in ContextLists :
                ~HasField(assembly.source, name) =>
                    Attr(Context, name).v = << >>

\* C18 (as claimed): in every CompanyContext produced by from_dict or basic
\* detection, persona and visual identity included, every list field is a
\* list and every string field a string, never null or absent; missing keys
\* take the documented default and unknown keys are ignored.
C18_EveryFieldTyped ==
    Produced =>
        /\ DeclaredFieldsTyped
        /\ AreStrings(Persona, PersonaStrings)
        /\ AreStrings(Style, StyleStrings)
        /\ AreStrings(Visual, VisualStrings)

\* x[name] is null only where the source mapping gives null for it.
NoneOnlyAsGiven(x, given, names) ==
    \A name \in names :
        IsNone(Attr(x, name)) =>
            ( given.t = "obj" /\ IsNone(Attr(given, name)) )

\* C18 (amended): every list field is a list and every field declared str
\* (those of CompanyContext, AuthorInfo, BlogImageExample) is a string; a
\* field declared Optional[str] (those of VoicePersona, LanguageStyle,
\* VisualIdentity) is a string or null, null only where the source mapping
\* gives null; missing keys take the documented default; unknown keys are
\* ignored.
C18_TypedOrNullable ==
    Produced =>
        /\ DeclaredFieldsTyped
        /\ AreStringsOrNone(Persona, PersonaStrings)
        /\ AreStringsOrNone(Style, StyleStrings)
        /\ AreStringsOrNone(Visual, VisualStrings)
        /\ LET voice == Attr(assembly.source, "voice_persona")
               style == IF voice.t = "obj" THEN Attr(voice, "language_style")
                        ELSE ABSENT
               visual == Attr(assembly.source, "visual_identity")
           IN  /\ NoneOnlyAsGiven(Persona, voice, PersonaStrings)
               /\ NoneOnlyAsGiven(Style, style, StyleStrings)
               /\ NoneOnlyAsGiven(Visual, visual, VisualStrings)

\* from_dict has returned a context whose persona holds the null the source
\* gave, whose tone is the default of the missing key, and whose company
\* name is the one given.
C18_Witness ==
    /\ Produced
    /\ assembly.op = "from_dict"
    /\ IsNone(Attr(Persona, "icp_profile"))
    /\ IsNone(Attr(Style, "formality"))
    /\ Attr(Style, "complexity").v = MODERATE
    /\ ~HasField(assembly.source, "tone")
    /\ Attr(Context, "tone").v = PROFESSIONAL
    /\ Attr(Context, "company_name").v = COMPANY_ACME
    /\ Len(Attr(Context, "authors").v) = 2

\* C19: for every mapping m that from_dict assembles into a context c,
\* assembling c.model_dump() again returns a context equal to c field for
\* field, persona, visual identity and authors included.
C19_RoundTrip ==
    ( /\ assembly.op = "from_dict"
      /\ assembly.pc = "done"
      /\ assembly.result.ok ) =>
        /\ assembly.again.ok
        /\ SameValue(assembly.again.val, Context)

\* A populated mapping has gone round: the context holds two authors (one
\* whose null title was cleaned), the persona and the one valid blog image
\* of the source, and the second assembly has returned.
C19_Witness ==
    /\ assembly.op = "from_dict"
    /\ assembly.pc = "done"
    /\ assembly.result.ok
    /\ assembly.again.ok
    /\ Len(Attr(Context, "authors").v) = 2
    /\ Attr(Attr(Context, "authors").v[2], "title").v = << >>
    /\ Attr(Persona, "icp_profile").v = ICP_DEVS
    /\ Attr(Style, "formality").v = FORMALITY_CASUAL
    /\ Len(Attr(Visual, "blog_image_examples").v) = 1
    /\ Attr(assembly.dumped, "voice_persona").t = "obj"

HTTP_SCHEME == << "h","t","t","p",":","/","/" >>

\* The URL the claim documents: prefixed with https:// unless it carries a
\* scheme.
DocumentedUrl(url) ==
    IF StartsWith(url, HTTPS_PREFIX) \/ StartsWith(url, HTTP_SCHEME)
    THEN url ELSE HTTPS_PREFIX \o url

\* The name the claim documents: the host of that URL without a leading
\* "www.", its first label, hyphens as spaces, in title case.
DocumentedName(url) ==
    LET full == DocumentedUrl(url)
        rest == SubSeq(full, IndexOf(full, << ":", "/", "/" >>) + 3, Len(full))
        host == SubSeq(rest, 1, FirstIn(rest, { "/", "?", "#" }) - 1)
        bare == IF StartsWith(host, WWW_DOT)
                THEN SubSeq(host, Len(WWW_DOT) + 1, Len(host)) ELSE host
        label == SubSeq(bare, 1, FirstIn(bare, { "." }) - 1)
    IN  Title([ i \in 1..Len(label) |->
                  IF label[i] = "-" THEN " " ELSE label[i] ])

\* C20 (as claimed): basic_company_detection(url) returns a CompanyContext
\* whose company_name is derived from the URL's host (www. stripped, first
\* label, hyphens to spaces, title case), whose company_url is the
\* https-prefixed URL, and whose other fields are the documented defaults.
C20_BasicDetectionFromHost ==
    AssemblyCalled("basic") =>
        /\ assembly.result.ok
        /\ Attr(Context, "company_name").v = DocumentedName(assembly.source.v)
        /\ Attr(Context, "company_url").v = DocumentedUrl(assembly.source.v)
        /\ \A name \in ContextStrings \ { "company_name", "company_url" } :
              Attr(Context, name).v = DocumentedDefault(name)
        /\ \A name \in ContextLists : Attr(Context, name).v = << >>
        /\ SameValue(Persona, Construct("VoicePersona", EMPTY_DICT).val)
        /\ SameValue(Visual, Construct("VisualIdentity", EMPTY_DICT).val)

\* ------------------------------------------- claims on the parse failure

\* C26 (as claimed): a response that was received but cannot be recovered
\* into JSON makes generate raise the parse error at once: the failure is
\* never taken for a transient one, whatever its message or preview holds,
\* so no request and no backoff sleep follows it.
C26_ParseFailureIsFinal ==
    ( last_error.type = "ValueError" /\ last_error.request >= 1 ) =>
        /\ pc = "done"
        /\ gen_outcome.kind = "raised"
        /\ gen_outcome.error = last_error
        /\ requests = last_error.request
        /\ Len(sleeps) = last_error.request - 1

\* ------------------------------------------------ claims on the target URL

\* C21 (as claimed): a target URL given without a scheme is used with
\* "https://" in front of it, and a URL that carries a scheme is used
\* unchanged, whatever the host name, host names that begin with the letters
\* "http" included.
C21_SchemeAdded ==
    ( AssemblyCalled("basic") /\ assembly.result.ok ) =>
        Attr(Context, "company_url").v = DocumentedUrl(assembly.source.v)

\* ====================================== generate_with_schema: the sources

\* '_grounding_sources', 'uri', 'title'
GROUNDING_SOURCES ==
    << "_","g","r","o","u","n","d","i","n","g","_","s","o","u","r","c","e",
       "s" >>
KEY_URI == << "u","r","i" >>
KEY_TITLE == << "t","i","t","l","e" >>

\* An object of the response is written as the mapping of its attributes.
\* hasattr(x, name)
HasAttr(x, name) == x.t = "obj" /\ HasField(x, name)

\* {'uri': getattr(chunk.web, 'uri', ''), 'title': getattr(chunk.web, 'title', '')}
SourceOf(web) ==
    JObj(<< Pair(KEY_URI, IF HasAttr(web, "uri")
                          THEN Get(web, "uri", EMPTY_STR) ELSE EMPTY_STR),
            Pair(KEY_TITLE, IF HasAttr(web, "title")
                            THEN Get(web, "title", EMPTY_STR)
                            ELSE EMPTY_STR) >>)

\* if hasattr(chunk, 'web') and chunk.web: sources.append({...})
RECURSIVE SourcesOfChunks(_)
SourcesOfChunks(chunks) ==
    IF Len(chunks) = 0 THEN << >>
    ELSE ( IF HasAttr(chunks[1], "web")
              /\ Truthy(Get(chunks[1], "web", NULL))
           THEN << SourceOf(Get(chunks[1], "web", NULL)) >>
           ELSE << >> )
         \o SourcesOfChunks(SubSeq(chunks, 2, Len(chunks)))

\* An extraction that finds nothing.
ExtractNothing(response) == EMPTY_LIST

\* _extract_grounding_sources: the sources of the first candidate's
\* grounding chunks; an exception (the response without the attribute
\* candidates, candidates without a length, chunks that cannot be iterated)
\* is caught and leaves the list as it is, empty.
ExtractGroundingSources(response) ==
    IF ~HasAttr(response, "candidates") THEN EMPTY_LIST
    ELSE LET candidates == Get(response, "candidates", NULL)
         IN  IF ~Truthy(candidates) \/ candidates.t # "arr" THEN EMPTY_LIST
             ELSE LET candidate == candidates.v[1]
                  IN  IF ~( /\ HasAttr(candidate, "grounding_metadata")
                            /\ Truthy(Get(candidate, "grounding_metadata", NULL)) )
                      THEN EMPTY_LIST
                      ELSE LET metadata ==
                                 Get(candidate, "grounding_metadata", NULL)
                           IN  IF ~( /\ HasAttr(metadata, "grounding_chunks")
                                     /\ Truthy(Get(metadata, "grounding_chunks",
                                                   NULL)) )
                               THEN EMPTY_LIST
                               ELSE LET chunks ==
                                          Get(metadata, "grounding_chunks", NULL)
                                    IN  IF chunks.t # "arr" THEN EMPTY_LIST
                                        ELSE JArr(SourcesOfChunks(chunks.v))

\* result["_grounding_sources"] = grounding_sources
WithSources(result, grounding_sources) ==
    Put(result, GROUNDING_SOURCES, grounding_sources)

\* ---------------------------------------------------------- the responses

\* The web parts of grounding chunks: both attributes; no title attribute;
\* a title that is None.
WEB_FULL ==
    JObj(<< Pair("uri", JStr(URL_FULL)), Pair("title", JStr(COMPANY_ACME)) >>)
WEB_NO_TITLE == JObj(<< Pair("uri", JStr(URL_BARE)) >>)
WEB_NULL_TITLE ==
    JObj(<< Pair("uri", JStr(URL_BARE)), Pair("title", NULL) >>)

Chunk(web) == JObj(<< Pair("web", web) >>)
CHUNK_NO_WEB == JObj(<< Pair("retrieved_context", NULL) >>)

Candidate(metadata) == JObj(<< Pair("grounding_metadata", metadata) >>)
Metadata(chunks) == JObj(<< Pair("grounding_chunks", chunks) >>)
Response(candidates) == JObj(<< Pair("candidates", candidates) >>)

Grounded(chunks) ==
    Response(JArr(<< Candidate(Metadata(JArr(chunks))) >>))

Source(uri, title) ==
    JObj(<< Pair(KEY_URI, JStr(uri)), Pair(KEY_TITLE, title) >>)

\* A response and the grounding sources it holds.
ResponseInput(response, sources) ==
    [ response |-> response, sources |-> JArr(sources) ]

\* Responses with grounding chunks (one source; three chunks, one of them
\* without a web part; a title that is missing or None), and responses
\* without grounding metadata: no candidates, an empty list of candidates,
\* a candidate without metadata, metadata that is None, metadata without
\* chunks, an empty list of chunks, a response object without the attribute.
Responses ==
    << ResponseInput(Grounded(<< Chunk(WEB_FULL) >>),
                     << Source(URL_FULL, JStr(COMPANY_ACME)) >>),
       ResponseInput(Grounded(<< Chunk(WEB_FULL), CHUNK_NO_WEB,
                                 Chunk(WEB_NO_TITLE) >>),
                     << Source(URL_FULL, JStr(COMPANY_ACME)),
                        Source(URL_BARE, EMPTY_STR) >>),
       ResponseInput(Grounded(<< Chunk(NULL), Chunk(WEB_NULL_TITLE) >>),
                     << Source(URL_BARE, NULL) >>),
       ResponseInput(Response(NULL), << >>),
       ResponseInput(Response(EMPTY_LIST), << >>),
       ResponseInput(Response(JArr(<< JObj(<< Pair("content", NULL) >>) >>)),
                     << >>),
       ResponseInput(Response(JArr(<< Candidate(NULL) >>)), << >>),
       ResponseInput(Response(JArr(<< Candidate(JObj(<< >>)) >>)), << >>),
       ResponseInput(Grounded(<< >>), << >>),
       ResponseInput(Grounded(<< CHUNK_NO_WEB >>), << >>),
       ResponseInput(JObj(<< Pair("text", NULL) >>), << >>) >>

\* '{"_grounding_sources": 1}'
OBJ_OWN_SOURCES ==
    << "{","\"" >> \o GROUNDING_SOURCES \o << "\"",":"," ","1","}" >>

\* The texts of the responses: two objects, one of which has a key named
\* like the one the sources are stored under, and a text without an object.
GroundedTexts == { OBJ_NUMBER, OBJ_OWN_SOURCES, TEXT_PROSE }

\* _parse_json on a text of GroundedTexts: a text without "{" raises the
\* ValueError of the anchoring stage, and the other texts are strict JSON
\* objects without fences, which json.loads returns at the first attempt.
ParseOfObject(text) ==
    IF ParseJsonRaises(text)
    THEN ParseRaised("ValueError", ParseErrorMessage(text))
    ELSE ParseReturned(JsonLoads(text).val)

\* ----------------------- one answered request of generate_with_schema

\* The response of a request has arrived.
Answered(n, text, extract_sources, use_google_search) ==
    [ pc |-> "received", response |-> Responses[n].response,
      expected |-> Responses[n].sources, text |-> text,
      extract_sources |-> extract_sources,
      use_google_search |-> use_google_search,
      parsed |-> ParsePending, result |-> ParsePending,
      sources |-> EMPTY_LIST ]

InitGrounded ==
    /\ CallIdle
    /\ parser = ParserIdle
    /\ assembly = AssemblyIdle
    /\ api = ApiIdle
    /\ store = StoreIdle
    /\ \E n \in 1..Len(Responses), text \in GroundedTexts,
          extract_sources \in BOOLEAN, use_google_search \in BOOLEAN :
         grounded = Answered(n, text, extract_sources, use_google_search)

\* result = self._parse_json(text); an exception goes to the except branch
\* of the retry loop.
ParseResponseText ==
    /\ grounded.pc = "received"
    /\ LET parsed == ParseOfObject(grounded.text)
       IN  grounded' =
             [ grounded EXCEPT
                 !.pc = IF parsed.kind = "returned" THEN "parsed" ELSE "done",
                 !.parsed = parsed,
                 !.result = parsed ]
    /\ UNCHANGED << callVars, parser, assembly, api, store >>

\* if extract_sources and use_google_search: the sources are extracted and,
\* if grounding_sources, stored under "_grounding_sources".
ExtractSources ==
    /\ grounded.pc = "parsed"
    /\ grounded.extract_sources /\ grounded.use_google_search
    /\ LET grounding_sources == ExtractGroundingSources(grounded.response)
       IN  grounded' =
             [ grounded EXCEPT
                 !.pc = "return",
                 !.sources = grounding_sources,
                 !.result =
                    IF Truthy(grounding_sources)
                    THEN ParseReturned(WithSources(grounded.result.value,
                                                   grounding_sources))
                    ELSE grounded.result ]
    /\ UNCHANGED << callVars, parser, assembly, api, store >>

\* The condition is false: nothing is extracted.
SkipSources ==
    /\ grounded.pc = "parsed"
    /\ ~(grounded.extract_sources /\ grounded.use_google_search)
    /\ grounded' = [ grounded EXCEPT !.pc = "return" ]
    /\ UNCHANGED << callVars, parser, assembly, api, store >>

\* return result
ReturnResult ==
    /\ grounded.pc = "return"
    /\ grounded' = [ grounded EXCEPT !.pc = "done" ]
    /\ UNCHANGED << callVars, parser, assembly, api, store >>

NextGrounded ==
    \/ ParseResponseText
    \/ ExtractSources
    \/ SkipSources
    \/ ReturnResult

SpecGrounded == InitGrounded /\ [][NextGrounded]_vars

\* ----------------------------------------------- claims on the sources

GroundedDone == grounded.pc = "done"

\* The response text was recovered into a mapping: the generation succeeded.
GenerationSucceeded == grounded.parsed.kind = "returned"

Carried == Get(grounded.result.value, GROUNDING_SOURCES, ABSENT)

\* C22 (as claimed): generate_with_schema called with extract_sources=True
\* returns, whenever the generation succeeds, a mapping that carries the
\* list of the {uri, title} grounding sources of the response, the empty
\* list when the response has no grounding metadata.
C22_AlwaysCarriesSources ==
    ( GroundedDone /\ grounded.extract_sources /\ GenerationSucceeded ) =>
        /\ grounded.result.kind = "returned"
        /\ Carried.t = "arr"
        /\ SameValue(Carried, grounded.expected)

\* C22 (amended): with extract_sources=True and web search enabled, a
\* successful generation returns the parsed mapping with the list of the
\* response's grounding sources stored under "_grounding_sources" when that
\* list is not empty, and the parsed mapping as it is when the response has
\* no grounding sources or web search is disabled; the extraction never
\* raises and never turns a successful generation into a failure.
C22_SourcesWhenPresent ==
    ( GroundedDone /\ grounded.extract_sources /\ GenerationSucceeded ) =>
        /\ grounded.result.kind = "returned"
        /\ IF grounded.use_google_search /\ Len(grounded.expected.v) > 0
           THEN /\ SameValue(Carried, grounded.expected)
                /\ SameValue(grounded.result.value,
                             Put(grounded.parsed.value, GROUNDING_SOURCES,
                                 grounded.expected))
           ELSE SameValue(grounded.result.value, grounded.parsed.value)

\* C22 witness: a response with three chunks, two of them with a web part,
\* was answered with extract_sources=True and web search enabled, and the
\* returned mapping carries the two sources.
C22_Witness ==
    /\ GroundedDone
    /\ grounded.extract_sources /\ grounded.use_google_search
    /\ GenerationSucceeded
    /\ Len(grounded.expected.v) = 2
    /\ Carried.t = "arr"
    /\ Len(Carried.v) = 2

\* ============================================== the job store of the API
\* The fields result, ai_called and error of a job are written as decoded
\* JSON values (None is null).  Time is counted in writes: created_at is
\* the ordinal of the job's creation, updated_at the number of updates that
\* have stamped the job.

\* Jobs created through POST /api/v1/jobs in one behaviour.
MaxJobs == 1

JobIds == 1..MaxJobs

PENDING == "pending"
RUNNING == "running"
COMPLETED == "completed"
FAILED == "failed"

\* JobStore.create: the job dict
NewJob(url, created_at) ==
    [ status |-> PENDING, url |-> url, result |-> NULL, ai_called |-> NULL,
      error |-> NULL, created_at |-> created_at, updated_at |-> 0 ]

\* self._jobs[job_id] = job
StoreCreate(jobs, job_id, url) ==
    [ j \in DOMAIN jobs \cup { job_id } |->
        IF j = job_id THEN NewJob(url, job_id) ELSE jobs[j] ]

\* if job_id in self._jobs: what update and delete return a job or True on.
StoreFinds(jobs, job_id) == job_id \in DOMAIN jobs

\* job.update(kwargs)
Merged(job, kwargs) ==
    [ f \in DOMAIN job |-> IF f \in DOMAIN kwargs THEN kwargs[f] ELSE job[f] ]

\* job["updated_at"] = datetime.utcnow().isoformat()
Stamped(job) == [ job EXCEPT !.updated_at = @ + 1 ]

\* An update that finds every job, whether it is in the store or not.
StoreUpdateUnchecked(jobs, job_id, kwargs) ==
    [ j \in DOMAIN jobs \cup { job_id } |->
        IF j = job_id
        THEN Stamped(Merged(NewJob(<< >>, job_id), kwargs))
        ELSE jobs[j] ]

\* JobStore.update: the store after the call.
StoreUpdate(jobs, job_id, kwargs) ==
    IF StoreFinds(jobs, job_id)
    THEN [ jobs EXCEPT ![job_id] = Stamped(Merged(@, kwargs)) ]
    ELSE jobs

\* JobStore.delete: the store after the call.
StoreDelete(jobs, job_id) ==
    [ j \in DOMAIN jobs \ { job_id } |-> jobs[j] ]

\* sorted(self._jobs.values(), key=created_at, reverse=True): the ids.
RECURSIVE NewestFirst(_, _)
NewestFirst(jobs, ids) ==
    IF ids = {} THEN << >>
    ELSE LET newest == CHOOSE j \in ids :
                         \A k \in ids : jobs[k].created_at <= jobs[j].created_at
         IN  << newest >> \o NewestFirst(jobs, ids \ { newest })

DEFAULT_LIMIT == 50

\* JobStore.list_all(limit)
StoreListAll(jobs, limit) ==
    LET all == NewestFirst(jobs, DOMAIN jobs)
    IN  SubSeq(all, 1, Min(Len(all), limit))

\* GET /api/v1/jobs/{job_id}: get_job answers 200 with the job that
\* job_store.get returns, 404 when it returns None.
GetJobCode(jobs, job_id) == IF job_id \in DOMAIN jobs THEN 200 ELSE 404

\* GET /api/v1/jobs: the ids of the jobs that list_jobs answers with.
ListJobsIds(jobs, limit) ==
    { StoreListAll(jobs, limit)[n] : n \in 1..Len(StoreListAll(jobs, limit)) }

\* DELETE /api/v1/jobs/{job_id}: 204, or 404 when delete returns False.
DeleteJobCode(jobs, job_id) == IF StoreFinds(jobs, job_id) THEN 204 ELSE 404

\* 'Request timed out'
MSG_TIMED_OUT ==
    << "R","e","q","u","e","s","t"," ","t","i","m","e","d"," ","o","u","t" >>

\* The exceptions of the generation service that an analysis meets.
JobErrorMessages == { MSG_HTTP_429, MSG_BAD_KEY }

\* What get_company_context ends with: (context, ai_called) or an exception.
NoContext == [ kind |-> "pending", context |-> NULL, ai_called |-> FALSE,
               error |-> << >> ]
ContextReturned(source, url, flag) ==
    [ kind |-> "returned",
      context |-> JObj(<< Pair("source", JStr(source)),
                          Pair("company_url", JStr(url)) >>),
      ai_called |-> flag, error |-> << >> ]
ContextRaised(msg) ==
    [ kind |-> "raised", context |-> NULL, ai_called |-> FALSE,
      error |-> msg ]

SOURCE_MODEL == << "m","o","d","e","l" >>
SOURCE_BASIC == << "b","a","s","i","c" >>

\* get_company_context's fallback: basic_company_detection(url), False, when
\* the caller opted into it; the exception otherwise.
JobFallbackOrRaise(task, msg) ==
    IF task.fallback_on_error
    THEN ContextReturned(SOURCE_BASIC, task.url, FALSE)
    ELSE ContextRaised(msg)

\* The kwargs of the two final updates of run_analysis_job.
\* A completion that stores no ai_called.
CompletedKwargsNoFlag(ended) ==
    [ status |-> COMPLETED, result |-> ended.context ]

CompletedKwargs(ended) ==
    [ status |-> COMPLETED, result |-> ended.context,
      ai_called |-> JLit(IF ended.ai_called THEN WORD_TRUE ELSE WORD_FALSE) ]

FailedKwargs(ended) ==
    [ status |-> FAILED, error |-> JStr(ended.error) ]

\* A background task that has been added, before its first statement.
Scheduled(url, fallback_on_error) ==
    [ pc |-> "scheduled", url |-> url, fallback_on_error |-> fallback_on_error,
      attempt |-> 0, requests |-> 0, sleeps |-> 0, outcome |-> NoContext ]

\* The API after start-up: an empty store, no task, no id given out; deleted
\* is the set of the ids whose deletion was answered with 204, missed the
\* set of the ids for which the last update of the task has returned None.  The handlers
\* that only read the store (get_job, list_jobs) change nothing: what they
\* answer in a state is GetJobCode and ListJobsIds of that state.
InitJobs ==
    /\ CallIdle
    /\ parser = ParserIdle
    /\ assembly = AssemblyIdle
    /\ grounded = GroundedIdle
    /\ store = StoreIdle
    /\ api = [ pc |-> "serving", jobs |-> << >>, tasks |-> << >>,
               created |-> 0, deleted |-> {}, missed |-> {} ]

TaskAt(j, at) == j \in DOMAIN api.tasks /\ api.tasks[j].pc = at

\* The task of job j goes on with `task`, or is over.
TaskBecomes(j, task) == [ api.tasks EXCEPT ![j] = task ]
TaskOver(j) == [ k \in DOMAIN api.tasks \ { j } |-> api.tasks[k] ]

\* The end of get_company_context in the task of job j.
AnalysisEnds(j, ended) ==
    TaskBecomes(j, [ api.tasks[j] EXCEPT
                       !.pc = ended.kind, !.outcome = ended,
                       !.attempt = 0, !.requests = 0, !.sleeps = 0 ])

\* The last job_store.update(job_id, **kwargs) of the task of job j.
TaskUpdates(j, kwargs) ==
    [ api EXCEPT
        !.jobs = StoreUpdate(api.jobs, j, kwargs),
        !.missed = IF StoreFinds(api.jobs, j) THEN @ ELSE @ \cup { j } ]

jobFrame == << callVars, parser, assembly, grounded, store >>

\* str(request.url) of the requests: "https://www.a-b.io/x", "http://ex.com/".
URL_HTTP ==
    << "h","t","t","p",":","/","/","e","x",".","c","o","m","/" >>
JobUrls == { URL_FULL, URL_HTTP }

\* POST /api/v1/jobs: create_job stores a new job under a fresh id and adds
\* the background task.
CreateJob ==
    /\ api.created < MaxJobs
    /\ \E url \in JobUrls, fallback_on_error \in BOOLEAN :
         LET job_id == api.created + 1
         IN  api' = [ api EXCEPT
                        !.created = job_id,
                        !.jobs = StoreCreate(api.jobs, job_id, url),
                        !.tasks = [ k \in DOMAIN api.tasks \cup { job_id } |->
                                      IF k = job_id
                                      THEN Scheduled(url, fallback_on_error)
                                      ELSE api.tasks[k] ] ]
    /\ UNCHANGED jobFrame

\* A task that starts its analysis without marking the job.
MarkRunningSkipped(j) ==
    /\ TaskAt(j, "scheduled")
    /\ api' = [ api EXCEPT
                  !.tasks = TaskBecomes(j, [ api.tasks[j] EXCEPT
                                               !.pc = "entered" ]) ]
    /\ UNCHANGED jobFrame

\* run_analysis_job: job_store.update(job_id, status=JobStatus.RUNNING)
MarkRunning(j) ==
    /\ TaskAt(j, "scheduled")
    /\ api' = [ api EXCEPT
                  !.jobs = StoreUpdate(api.jobs, j, [ status |-> RUNNING ]),
                  !.tasks = TaskBecomes(j, [ api.tasks[j] EXCEPT
                                               !.pc = "entered" ]) ]
    /\ UNCHANGED jobFrame

\* get_company_context up to the first request: without a credential it
\* ends at once, with the fallback or with ValueError.
EnterAnalysis(j) ==
    /\ TaskAt(j, "entered")
    /\ \E has_key \in BOOLEAN :
         api' = [ api EXCEPT
                    !.tasks =
                       IF has_key
                       THEN TaskBecomes(j, [ api.tasks[j] EXCEPT
                                               !.pc = "request" ])
                       ELSE AnalysisEnds(j, JobFallbackOrRaise(api.tasks[j],
                                                               MSG_NO_KEY)) ]
    /\ UNCHANGED jobFrame

\* The retry loop of generate_with_schema sends the request of an attempt:
\* asyncio.to_thread(generate_content, ...) under asyncio.wait_for.
SendRequest(j) ==
    /\ TaskAt(j, "request")
    /\ api' = [ api EXCEPT
                  !.tasks = TaskBecomes(j, [ api.tasks[j] EXCEPT
                                               !.pc = "await",
                                               !.requests = @ + 1 ]) ]
    /\ UNCHANGED jobFrame

\* The rest of the iteration: the request returns, raises or times out, and
\* the backoff sleep is slept when a retry follows.  An exception that
\* leaves the loop is handled by get_company_context.
RequestEnds(j) ==
    /\ TaskAt(j, "await")
    /\ LET task == api.tasks[j]
           retry == [ task EXCEPT !.pc = "request", !.attempt = @ + 1,
                                  !.sleeps = @ + 1 ]
       IN  \/ api' = [ api EXCEPT
                         !.tasks = AnalysisEnds(j,
                                     ContextReturned(SOURCE_MODEL, task.url,
                                                     TRUE)) ]
           \/ \E msg \in JobErrorMessages :
                api' = [ api EXCEPT
                           !.tasks =
                              IF ~IsRetryable(msg)
                                 \/ BudgetExhausted(task.attempt)
                              THEN AnalysisEnds(j,
                                     JobFallbackOrRaise(task, msg))
                              ELSE TaskBecomes(j, retry) ]
           \/ api' = [ api EXCEPT
                         !.tasks =
                            IF SleepsBeforeRetry(task.attempt)
                            THEN TaskBecomes(j, retry)
                            ELSE AnalysisEnds(j,
                                   JobFallbackOrRaise(task, MSG_TIMED_OUT)) ]
    /\ UNCHANGED jobFrame

\* run_analysis_job: job_store.update(job_id, status=JobStatus.COMPLETED,
\* result=context.model_dump(), ai_called=ai_called)
CompleteJob(j) ==
    /\ TaskAt(j, "returned")
    /\ api' = [ TaskUpdates(j, CompletedKwargs(api.tasks[j].outcome)) EXCEPT
                  !.tasks = TaskOver(j) ]
    /\ UNCHANGED jobFrame

\* run_analysis_job, except Exception: job_store.update(job_id,
\* status=JobStatus.FAILED, error=str(e))
FailJob(j) ==
    /\ TaskAt(j, "raised")
    /\ api' = [ TaskUpdates(j, FailedKwargs(api.tasks[j].outcome)) EXCEPT
                  !.tasks = TaskOver(j) ]
    /\ UNCHANGED jobFrame

\* DELETE /api/v1/jobs/{job_id}: delete_job
DeleteJob(j) ==
    /\ api' = IF DeleteJobCode(api.jobs, j) = 204
              THEN [ api EXCEPT !.jobs = StoreDelete(api.jobs, j),
                                !.deleted = @ \cup { j } ]
              ELSE api
    /\ UNCHANGED jobFrame

TaskStep(j) ==
    \/ MarkRunning(j)
    \/ EnterAnalysis(j)
    \/ SendRequest(j)
    \/ RequestEnds(j)
    \/ CompleteJob(j)
    \/ FailJob(j)

NextJobs ==
    \/ CreateJob
    \/ \E j \in JobIds : MarkRunning(j)
    \/ \E j \in JobIds : EnterAnalysis(j)
    \/ \E j \in JobIds : SendRequest(j)
    \/ \E j \in JobIds : RequestEnds(j)
    \/ \E j \in JobIds : CompleteJob(j)
    \/ \E j \in JobIds : FailJob(j)
    \/ \E j \in JobIds : DeleteJob(j)

SpecJobs == InitJobs /\ [][NextJobs]_vars

\* The background task of every job is run, each request returns, raises or
\* times out, and each sleep ends.
SpecJobsFair ==
    SpecJobs /\ \A j \in JobIds : WF_vars(TaskStep(j))

\* ------------------------------------------------- claims on the jobs

Stored == DOMAIN api.jobs

Terminal(j) == j \in Stored /\ api.jobs[j].status \in { COMPLETED, FAILED }

\* The moves of a status that the claim allows.
Forward == { << PENDING, RUNNING >>, << RUNNING, COMPLETED >>,
             << RUNNING, FAILED >> }

\* C27: after any sequence of job creations, analysis runs and deletions a
\* job's status has only moved along PENDING -> RUNNING -> (COMPLETED |
\* FAILED): every step that changes the status of a stored job is one of
\* these moves (so it never moves backwards, never from PENDING to a
\* terminal status, never after COMPLETED or FAILED), and a job enters the
\* store as PENDING under an id never used before.
C27_StatusMovesForward ==
    [][ /\ \A j \in Stored \cap DOMAIN api'.jobs :
             api'.jobs[j].status # api.jobs[j].status =>
                << api.jobs[j].status, api'.jobs[j].status >> \in Forward
        /\ \A j \in DOMAIN api'.jobs \ Stored :
             /\ api'.jobs[j].status = PENDING
             /\ j > api.created ]_vars

\* C27 witness: a stored job has gone from PENDING to RUNNING and on to
\* FAILED, and its task is over.
C27_Witness ==
    \E j \in Stored :
        /\ api.jobs[j].status = FAILED
        /\ api.jobs[j].updated_at = 2
        /\ j \notin DOMAIN api.tasks

\* C28: every job held in the store satisfies: COMPLETED implies result and
\* ai_called set and error None; FAILED implies error set and result and
\* ai_called None; PENDING or RUNNING implies all three None.
C28_FieldsMatchStatus ==
    \A j \in Stored :
        LET job == api.jobs[j]
        IN  /\ job.status \in { PENDING, RUNNING, COMPLETED, FAILED }
            /\ job.status = COMPLETED =>
                  /\ ~IsNone(job.result)
                  /\ ~IsNone(job.ai_called)
                  /\ IsNone(job.error)
            /\ job.status = FAILED =>
                  /\ ~IsNone(job.error)
                  /\ IsNone(job.result)
                  /\ IsNone(job.ai_called)
            /\ job.status \in { PENDING, RUNNING } =>
                  /\ IsNone(job.result)
                  /\ IsNone(job.ai_called)
                  /\ IsNone(job.error)

\* C28 witness: the store holds a job completed by the fallback, with
\* ai_called False and the result of the basic detection.
C28_Witness ==
    \E j \in Stored :
        /\ api.jobs[j].status = COMPLETED
        /\ api.jobs[j].ai_called.v = WORD_FALSE
        /\ api.jobs[j].result.t = "obj"

\* The kwargs of the updates that run_analysis_job makes.
TaskKwargs ==
    { [ status |-> RUNNING ] }
    \cup { FailedKwargs(ContextRaised(msg)) : msg \in JobErrorMessages }

\* C29: once delete(job_id) has returned True the job never reappears: an
\* update for that id returns None and changes nothing, get finds nothing
\* (404), list_all does not contain it, and another delete returns False
\* (404); update returns None for deleted jobs only.
C29_DeletedStaysDeleted ==
    /\ \A j \in api.deleted :
          /\ j \notin Stored
          /\ ~StoreFinds(api.jobs, j)
          /\ \A kwargs \in TaskKwargs :
                DOMAIN StoreUpdate(api.jobs, j, kwargs) = Stored
          /\ StoreUpdate(api.jobs, j,
                         CompletedKwargs(ContextReturned(SOURCE_MODEL,
                                                         URL_FULL, TRUE)))
                = api.jobs
          /\ GetJobCode(api.jobs, j) = 404
          /\ \A limit \in { 1, DEFAULT_LIMIT } :
                j \notin ListJobsIds(api.jobs, limit)
          /\ DeleteJobCode(api.jobs, j) = 404
    /\ api.missed \subseteq api.deleted

\* C29 witness: a job was deleted while its analysis was running, and the
\* task has since made its final update, which returned None, and is over.
C29_Witness ==
    \E j \in api.deleted :
        /\ j \in api.missed
        /\ j \notin DOMAIN api.tasks

\* C30: every job created through POST /api/v1/jobs and not deleted
\* eventually reaches COMPLETED or FAILED, provided each request returns,
\* raises or times out and the background task is run: an analysis makes at
\* most max_retries + 1 requests and max_retries sleeps.
C30_EveryJobFinishes ==
    /\ [](\A j \in DOMAIN api.tasks :
            /\ api.tasks[j].requests <= cfg.max_retries + 1
            /\ api.tasks[j].sleeps <= cfg.max_retries)
    /\ \A j \in JobIds :
          (j \in Stored) ~> (j \notin Stored \/ Terminal(j))

\* C30 witness: the analysis of a stored job awaits its last allowed request,
\* after max_retries + 1 requests and max_retries sleeps.
C30_Witness ==
    \E j \in Stored :
        /\ TaskAt(j, "await")
        /\ api.jobs[j].status = RUNNING
        /\ api.tasks[j].requests = cfg.max_retries + 1
        /\ api.tasks[j].sleeps = cfg.max_retries

\* --------------------------------------------- the job store under threads

\* JobStore called from several threads for one job id: a creator, the
\* updater (the calls of run_analysis_job), a reader (get_job or list_jobs)
\* and a deleter.  The critical sections of create, get, list_all and delete
\* are one step each; update holds the lock over two statements, the merge
\* of the kwargs and the stamp of updated_at.  get and list_all return the
\* dict held in the store itself, which the reader then reads one key at a
\* time outside the lock.

\* What a reader can tell of a job: the status, which of the three fields are
\* set, and the stamp.
Shape(job) ==
    [ status |-> job.status,
      result |-> ~IsNone(job.result),
      ai_called |-> ~IsNone(job.ai_called),
      error |-> ~IsNone(job.error),
      updated_at |-> job.updated_at ]

\* list_jobs answers result=None whatever the job holds.
SeenBy(op, shape) ==
    IF op = "get" THEN shape ELSE [ shape EXCEPT !.result = FALSE ]

\* The kwargs of the updater's calls: RUNNING first, then COMPLETED or FAILED.
UpdaterKwargs(step) ==
    IF step = 0
    THEN { [ status |-> RUNNING ] }
    ELSE { CompletedKwargs(ContextReturned(SOURCE_MODEL, URL_FULL, TRUE)),
           FailedKwargs(ContextRaised(MSG_BAD_KEY)) }

ReaderStart ==
    [ pc |-> "start", op |-> "get", resp |-> NewJob(URL_FULL, 1) ]

InitStore ==
    /\ CallIdle
    /\ parser = ParserIdle
    /\ assembly = AssemblyIdle
    /\ grounded = GroundedIdle
    /\ api = ApiIdle
    /\ store = [ pc |-> "threads",
                 held |-> FALSE,
                 job |-> NewJob(URL_FULL, 1),
                 lock |-> "free",
                 creator |-> "start",
                 updater |-> [ pc |-> "call", step |-> 0 ],
                 reader |-> ReaderStart,
                 deleter |-> "start",
                 versions |-> {} ]

storeFrame == << callVars, parser, assembly, grounded, api >>

\* JobStore.create: the new dict is stored under the lock.
ThreadCreate ==
    /\ store.pc = "threads"
    /\ store.creator = "start"
    /\ store.lock = "free"
    /\ store' = [ store EXCEPT
                    !.creator = "done",
                    !.held = TRUE,
                    !.job = NewJob(URL_FULL, 1),
                    !.versions = { Shape(NewJob(URL_FULL, 1)) } ]
    /\ UNCHANGED storeFrame

\* JobStore.update up to self._jobs[job_id].update(kwargs); for an id that is
\* not stored the call returns None.
ThreadUpdateMerge ==
    /\ store.pc = "threads"
    /\ store.updater.pc = "call"
    /\ store.updater.step < 2
    /\ store.lock = "free"
    /\ \E kwargs \in UpdaterKwargs(store.updater.step) :
         store' = IF store.held
                  THEN [ store EXCEPT
                           !.lock = "update",
                           !.job = Merged(@, kwargs),
                           !.updater.pc = "merged" ]
                  ELSE [ store EXCEPT !.updater.step = @ + 1 ]
    /\ UNCHANGED storeFrame

\* JobStore.update: self._jobs[job_id]["updated_at"] = ..., and the lock is
\* released.
ThreadUpdateStamp ==
    /\ store.pc = "threads"
    /\ store.updater.pc = "merged"
    /\ store' = [ store EXCEPT
                    !.lock = "free",
                    !.job = Stamped(@),
                    !.updater = [ pc |-> "call", step |-> @.step + 1 ],
                    !.versions = @ \cup { Shape(Stamped(store.job)) } ]
    /\ UNCHANGED storeFrame

\* JobStore.delete
ThreadDelete ==
    /\ store.pc = "threads"
    /\ store.deleter = "start"
    /\ store.lock = "free"
    /\ store' = [ store EXCEPT !.deleter = "done", !.held = FALSE ]
    /\ UNCHANGED storeFrame

\* job_store.get(job_id) in get_job, job_store.list_all() in list_jobs: under
\* the lock, the reader takes the stored dict, or finds none.
ReaderTakes ==
    /\ store.pc = "threads"
    /\ store.reader.pc = "start"
    /\ store.lock = "free"
    /\ \E op \in { "get", "list_all" } :
         store' = [ store EXCEPT
                      !.reader.op = op,
                      !.reader.pc = IF store.held THEN "status"
                                    ELSE "none" ]
    /\ UNCHANGED storeFrame

\* The reader at key `at` of the dict, outside the lock.
ReaderAt(at) == store.pc = "threads" /\ store.reader.pc = at

\* status=job["status"]
ReadStatus ==
    /\ ReaderAt("status")
    /\ store' = [ store EXCEPT !.reader.resp.status = store.job.status,
                               !.reader.pc = "result" ]
    /\ UNCHANGED storeFrame

\* result=job.get("result") in get_job, result=None in list_jobs
ReadResult ==
    /\ ReaderAt("result")
    /\ store' = [ store EXCEPT
                    !.reader.resp.result =
                        IF store.reader.op = "get" THEN store.job.result
                        ELSE NULL,
                    !.reader.pc = "ai_called" ]
    /\ UNCHANGED storeFrame

\* ai_called=job.get("ai_called")
ReadAiCalled ==
    /\ ReaderAt("ai_called")
    /\ store' = [ store EXCEPT !.reader.resp.ai_called = store.job.ai_called,
                               !.reader.pc = "error" ]
    /\ UNCHANGED storeFrame

\* error=job.get("error")
ReadError ==
    /\ ReaderAt("error")
    /\ store' = [ store EXCEPT !.reader.resp.error = store.job.error,
                               !.reader.pc = "updated_at" ]
    /\ UNCHANGED storeFrame

\* updated_at=job["updated_at"]: the response is complete.
ReadUpdatedAt ==
    /\ ReaderAt("updated_at")
    /\ store' = [ store EXCEPT
                    !.reader.resp.updated_at = store.job.updated_at,
                    !.reader.pc = "responded" ]
    /\ UNCHANGED storeFrame

NextStore ==
    \/ ThreadCreate
    \/ ThreadUpdateMerge
    \/ ThreadUpdateStamp
    \/ ThreadDelete
    \/ ReaderTakes
    \/ ReadStatus
    \/ ReadResult
    \/ ReadAiCalled
    \/ ReadError
    \/ ReadUpdatedAt

SpecStore == InitStore /\ [][NextStore]_vars

\* ------------------------------------------- claims on the store's threads

Responded == store.reader.pc = "responded"

\* The states the job has been in after a complete call of create or update,
\* as the reader's operation shows them.
WholeStates == { SeenBy(store.reader.op, v) : v \in store.versions }

\* A response with status COMPLETED holds the result (get_job) and ai_called.
CompletedHasResult ==
    store.reader.resp.status = COMPLETED =>
        /\ store.reader.op = "get" => ~IsNone(store.reader.resp.result)
        /\ ~IsNone(store.reader.resp.ai_called)

\* The status of the response comes with the stamp of a call that left the
\* job in that status.
StampFollowsStatus ==
    \E v \in WholeStates :
        /\ v.status = store.reader.resp.status
        /\ v.updated_at = store.reader.resp.updated_at

\* C23: JobStore is thread-safe: with create, get, update, list_all and
\* delete called concurrently, a reader working on the job that get() or
\* list_all() returned never observes a partially updated job: never status
\* COMPLETED with result or ai_called still None, never a changed status
\* with a stale updated_at; what it observes is a state the job was in after
\* a complete call.
C23_NoPartialUpdateSeen ==
    Responded =>
        /\ CompletedHasResult
        /\ StampFollowsStatus
        /\ Shape(store.reader.resp) \in WholeStates

====
